---- MODULE Spec2Model ----
(***************************************************************************)
(* A model of the real-time orchestration layer of the speech recognition  *)
(* backend: ConnectionManager (backend/websocket_manager.py), the receive  *)
(* loop of the WebSocket endpoint (backend/main.py), the session store     *)
(* (backend/database.py) and the alignment of transcript spans with        *)
(* diarization turns (backend/speech_processor.py).                        *)
(*                                                                         *)
(* The server is one asyncio event loop.  A coroutine runs without         *)
(* interruption between two awaits, so every action below is one such      *)
(* uninterrupted stretch of a handler together with the effect of the      *)
(* await that ends or begins it:                                           *)
(*   - receiving a frame changes nothing shared, so it is taken together   *)
(*     with the first store call of its handler;                           *)
(*   - a store write takes effect in one action and the coroutine resumes  *)
(*     in a later one, other coroutines running in between;                *)
(*   - websocket.send_text is one action per send: the registry lookup,    *)
(*     the delivery or failure, and the disconnect that a failure causes.  *)
(***************************************************************************)
EXTENDS Integers, Sequences, FiniteSets, TLC

\* ------------------------------------------------------------------ universe

\* The WebSocket transports that may connect, one receive task each, and the
\* connection id each one puts in its URL (/ws/{connection_id}).
Transports == {"t1", "t2", "t3"}
\* The transports that connect in the specification Spec.
Clients == {"t1", "t2"}
ConnIds == {"c1", "c2", "c3"}
ConnIdOf(t) == CASE t = "t1" -> "c1" [] t = "t2" -> "c2" [] OTHER -> "c3"

\* The ObjectIds the store hands out, in the order it hands them out.  Clients
\* may name any of them in a message, created or not.
SessionIdOrder == <<"s1", "s2">>
SessionIds == {SessionIdOrder[i] : i \in 1..Len(SessionIdOrder)}
\* message.get("session_id") of a message without that field
NoSid == "none"
\* message.get("type") of a message without that field
NoType == "no type"
\* Types a client may send that are none of the six handle_message knows.
UnknownTypes == {"ping", NoType}

\* Frames received over all connections together, and of them the audio_data
\* and the stop_session frames.
MaxMsgs == 4
MaxChunks == 1
MaxStops == 1
\* Segments process_audio_chunk returns for one chunk.
MaxChunkLen == 2
\* Transports closed by their peer.
MaxPeerCloses == 1
\* Store calls that raise (in the specification with an unreliable store).
MaxStoreFailures == 1

VARIABLES
    active_connections,  \* ConnectionManager.active_connections: id -> websocket
    session_connections, \* ConnectionManager.session_connections: session -> ids
    sessions,            \* the transcript_sessions collection: id -> document
    ws,                  \* per transport: "new", "open", or "closed" by the peer
    pc,                  \* per transport: where its endpoint coroutine stands
    h,                   \* per transport: the locals of the handler it runs
    inbox,               \* per transport: the frame send_text delivered to it last
    env,                 \* what the environment may still do: frames to send
                         \* (of them chunks and stops), transports to close,
                         \* store calls to fail, files to upload, sessions to
                         \* delete over REST; and the longest chunk
    ncreated,            \* sessions inserted so far
    hist,                \* history: the sessions a stop_session handler has
                         \* finished for, and per session the connections
                         \* added to its membership after that
    al,                  \* one call of align_transcription_with_diarization:
                         \* its arguments and its result
    idn,                 \* one call of identify_speaker: the registry, its
                         \* arguments and its result
    speaker_profiles,    \* the speaker_profiles collection, in insertion order
    known_speakers,      \* SpeechProcessor.known_speakers: the names in the
                         \* order they were first added, each with its embedding
    creating,            \* the speaker creation under way: its profile, once
                         \* create_speaker has inserted it
    proc,                \* one call of process_audio_chunk: its audio, the
                         \* results of its stages and what it returns
    upload,              \* the upload_audio_file request under way: its
                         \* locals
    adding               \* the request to add a speaker under way: its
                         \* sample, how far it got and how it ended

\* The speaker store, the registry and the creation under way.
speakers == <<speaker_profiles, known_speakers, creating>>

\* What the server's actions leave alone.
others == <<al, idn, speakers, proc, upload, adding>>

\* What a call of a function of the speech processor leaves alone.
server == <<active_connections, session_connections, sessions, ws, pc, h,
            inbox, env, ncreated, hist, upload, adding>>

vars == <<active_connections, session_connections, sessions, ws, pc, h, inbox,
          env, ncreated, hist, others>>

\* ------------------------------------------------------------------ values

\* The locals of a handler: the frame's type and session id, the chunk's
\* segments (or the segments join read) and the index of the next one to store,
\* whether the last store call returned and whether get_session found the
\* session, the copy of the membership set a broadcast iterates and the members
\* it has visited.  For the record: how often the broadcast's frame reached each
\* connection, whether the store held the session when the frame was received,
\* and whether the chunk came after a stop_session of its session had finished.
Idle == [type |-> "none", sid |-> NoSid, segs |-> <<>>, idx |-> 0,
         ok |-> TRUE, found |-> FALSE, snap |-> {}, visited |-> {},
         got |-> [c \in ConnIds |-> 0], known |-> FALSE,
         after_stop |-> FALSE]

\* A server-to-client frame; segs are the segments it carries.
Frame(type, sid, segs) == [type |-> type, sid |-> sid, segs |-> segs]
NoFrame == Frame("none", NoSid, <<>>)

\* The segments process_audio_chunk returns for a chunk: n of them, in
\* transcript-span order.  chunk tells the chunks apart (it is the number of
\* frames the environment had left when the chunk was received).
ChunkSegments(chunk, n) == [k \in 1..n |-> <<chunk, k>>]

\* The part of the state ConnectionManager's methods and send_text act on.
Manager == [ac |-> active_connections, sc |-> session_connections,
            inbox |-> inbox]

SetManager(M) ==
    /\ active_connections' = M.ac
    /\ session_connections' = M.sc
    /\ inbox' = M.inbox

\* No call of align_transcription_with_diarization is observed.
NoCall == [stage |-> "none", transcription |-> <<>>,
           diarization |-> [available |-> FALSE, segments |-> <<>>],
           segments |-> <<>>]

\* No call of identify_speaker is observed.
NoIdentify == [stage |-> "none", known_speakers |-> <<>>, embedding |-> <<>>,
               threshold |-> 0, result |-> "None"]

\* No call of process_audio_chunk is observed.  Of a call: the stage it is at,
\* the number of samples of its audio, whether the embedding model is loaded,
\* how transcription and diarization went and what they gave, the segments as
\* aligned and as they are now, the index of the segment the identification
\* loop is at, the segments the embedding model was run for, per segment the
\* embedding got and the name identified, and whether the call was cut short
\* by an exception.
NoChunk == [stage |-> "none", audio_len |-> 0, embedding_model |-> FALSE,
            transcribe |-> "pending", transcription |-> <<>>,
            diarize |-> "pending",
            diarization |-> [available |-> FALSE, segments |-> <<>>],
            aligned |-> <<>>, segments |-> <<>>, i |-> 0, requested |-> {},
            embeddings |-> <<>>, names |-> <<>>, aborted |-> FALSE]

\* No speaker creation is under way.
NoCreation == <<>>

\* No request to add a speaker is under way.  The locals of one: the speaker's
\* name, the length of the preprocessed sample and the sample rate its
\* duration is computed with, whether an embedding model is loaded, whether
\* the model was run, the embedding it returned, and how the request ended.
NoSample == [stage |-> "none", name |-> "", audio_len |-> 0, sample_rate |-> 0,
             embedding_model |-> FALSE, invoked |-> FALSE, embedding |-> <<>>,
             outcome |-> "none"]

\* No upload_audio_file request is under way.  The locals of one: the session
\* id, the segments process_audio_chunk returned and the index of the next one
\* to store, and whether a stop_session of the session had returned when the
\* request came.
NoRequest == [stage |-> "none", sid |-> NoSid, segs |-> <<>>, idx |-> 0,
              after_stop |-> FALSE]

\* No speaker profile is stored or registered and none is being created.
NoSpeakers ==
    /\ speaker_profiles = <<>>
    /\ known_speakers = <<>>
    /\ creating = NoCreation

\* ------------------------------------------------------- ConnectionManager

\* A disconnect that stops at the first membership set it finds the id in.
disconnect_first(M, c) ==
    LET S == {s \in DOMAIN M.sc : c \in M.sc[s]}
        first == IF S = {} THEN NoSid ELSE CHOOSE s \in S : TRUE
    IN [M EXCEPT !.ac = [x \in DOMAIN M.ac \ {c} |-> M.ac[x]],
                 !.sc = [s \in DOMAIN M.sc |->
                            IF s = first THEN M.sc[s] \ {c} ELSE M.sc[s]]]

disconnect(M, c) ==
    [M EXCEPT !.ac = [x \in DOMAIN M.ac \ {c} |-> M.ac[x]],
              !.sc = [s \in DOMAIN M.sc |-> M.sc[s] \ {c}]]

\* send_text succeeds on a transport the peer has not closed.
send_personal_message(M, message, c) ==
    IF c \in DOMAIN M.ac
    THEN IF ws[M.ac[c]] = "open"
         THEN [M EXCEPT !.inbox[M.ac[c]] = message]
         ELSE disconnect(M, c)
    ELSE M

\* The error handle_message answers a type it does not know with: the text is
\* the prefix followed by the type as the f-string formats it.
format_type(message_type) ==
    IF message_type = NoType THEN "None" ELSE message_type

unknown_type_error(message_type) ==
    [type |-> "error", sid |-> NoSid, segs |-> <<>>,
     message |-> <<"Unknown message type: ", format_type(message_type)>>]

\* A handle_message that drops a connection that sent a type it does not know.
handle_unknown_type_closing(M, message_type, c) ==
    disconnect(send_personal_message(M, unknown_type_error(message_type), c), c)

\* handle_message, the branch taken when the type is none of the six it knows.
handle_unknown_type(M, message_type, c) ==
    send_personal_message(M, unknown_type_error(message_type), c)

\* The frames handle_message checks for a field, each with the field it
\* requires first, and audio_data also with the one it requires next.
RequiredFields ==
    {<<"join_session", "session_id">>, <<"audio_data", "session_id">>,
     <<"audio_data", "audio_data">>, <<"stop_session", "session_id">>,
     <<"export_transcript", "session_id">>}

\* The error a handler answers a frame without a required field with:
\* handle_join_session and handle_export_transcript send the text of the
\* ValueError, handle_audio_data and handle_stop_session a text of their own.
validation_error(type, field) ==
    [type |-> "error", sid |-> NoSid, segs |-> <<>>,
     message |-> CASE type = "audio_data" -> <<"Failed to process audio">>
                   [] type = "stop_session" -> <<"Failed to stop session">>
                   [] OTHER -> <<"Session ID is required">>]

\* A handler that reports the missing field to every registered connection.
handle_invalid_to_all(M, type, field, c) ==
    [M EXCEPT !.inbox = [t \in DOMAIN M.inbox |->
        IF \E d \in DOMAIN M.ac : M.ac[d] = t /\ ws[t] = "open"
        THEN validation_error(type, field) ELSE M.inbox[t]]]

\* A handler whose frame lacks a required field: the ValueError is raised
\* before the first await and its except branch reports to the sender.
handle_invalid(M, type, field, c) ==
    send_personal_message(M, validation_error(type, field), c)

add_connection_to_session(M, c, sid) ==
    [M EXCEPT !.sc = [s \in DOMAIN M.sc \cup {sid} |->
                        (IF s \in DOMAIN M.sc THEN M.sc[s] ELSE {})
                        \cup (IF s = sid THEN {c} ELSE {})]]

\* broadcast_to_session, its first line: the copy of the membership set that
\* the loop iterates.
broadcast_snapshot(M, sid) == IF sid \in DOMAIN M.sc THEN M.sc[sid] ELSE {}

\* A loop that a failed send ends.
broadcast_pending_abort(M, hr) ==
    IF \E c \in hr.visited : hr.got[c] = 0 THEN {} ELSE hr.snap \ hr.visited

\* A loop over the membership set itself.
broadcast_pending_live(M, hr) == broadcast_snapshot(M, hr.sid) \ hr.visited

\* broadcast_to_session, its loop: the connections it has yet to visit.
broadcast_pending(M, hr) == hr.snap \ hr.visited

\* A stop that leaves the membership set in place.
clear_session_noop(M, sid) == M

\* handle_stop_session, after the broadcast: del session_connections[session_id]
clear_session(M, sid) ==
    [M EXCEPT !.sc = [s \in DOMAIN M.sc \ {sid} |-> M.sc[s]]]

\* An event that leaves out the chunk's last segment.
new_segments_frame_short(sid, segments) ==
    Frame("new_segments", sid, SubSeq(segments, 1, Len(segments) - 1))

\* The new_segments event handle_audio_data builds from the chunk's segments.
new_segments_frame(sid, segments) ==
    Frame("new_segments", sid, [k \in 1..Len(segments) |-> segments[k]])

\* The frame a handler broadcasts.
broadcast_frame(hr) ==
    IF hr.type = "audio_data"
    THEN new_segments_frame(hr.sid, hr.segs)
    ELSE Frame("session_stopped", hr.sid, <<>>)

\* ------------------------------------------------------ TranscriptRepository

\* An insert of a session that is completed from the start.
create_session_completed(db, sid) ==
    [s \in DOMAIN db \cup {sid} |->
        IF s = sid THEN [status |-> "completed", segments |-> <<>>] ELSE db[s]]

create_session(db, sid) ==
    [s \in DOMAIN db \cup {sid} |->
        IF s = sid THEN [status |-> "active", segments |-> <<>>] ELSE db[s]]

\* find_one: the document, or None (the empty sequence)
get_session(db, sid) == IF sid \in DOMAIN db THEN <<db[sid]>> ELSE <<>>

\* An update that sets nothing.
update_session_noop(db, sid, status) == db

\* update_one with $set: no document matches an unknown id, and nothing is raised
update_session(db, sid, status) ==
    IF sid \in DOMAIN db THEN [db EXCEPT ![sid].status = status] ELSE db

\* A batch update that reopens the session.
update_session_file_reopening(db, sid) ==
    IF sid \in DOMAIN db THEN [db EXCEPT ![sid].status = "active"] ELSE db

\* update_one with $set of audio_file_path and updated_at, as
\* upload_audio_file calls it: the status and the segments are not among the
\* fields it sets.
update_session_file(db, sid) == db

\* delete_one
delete_session(db, sid) == [s \in DOMAIN db \ {sid} |-> db[s]]

\* A push at the head of the array.
add_segment_first(db, sid, segment) ==
    IF sid \in DOMAIN db
    THEN [db EXCEPT ![sid].segments = <<segment>> \o @]
    ELSE db

\* A push that only an active session takes.
add_segment_if_active(db, sid, segment) ==
    IF sid \in DOMAIN db /\ db[sid].status = "active"
    THEN [db EXCEPT ![sid].segments = Append(@, segment)]
    ELSE db

\* update_one with $push
add_segment(db, sid, segment) ==
    IF sid \in DOMAIN db
    THEN [db EXCEPT ![sid].segments = Append(@, segment)]
    ELSE db

\* ------------------------------------------------------------------ initial

InitServer ==
    /\ active_connections = <<>>
    /\ session_connections = <<>>
    /\ sessions = <<>>
    /\ ws = [t \in Transports |-> "new"]
    /\ pc = [t \in Transports |-> "new"]
    /\ h = [t \in Transports |-> Idle]
    /\ inbox = [t \in Transports |-> NoFrame]
    /\ ncreated = 0
    /\ hist = [stopped |-> {}, late |-> [s \in SessionIds |-> {}]]
    /\ upload = NoRequest
    /\ adding = NoSample

\* The store is reliable.
Init ==
    /\ InitServer
    /\ al = NoCall
    /\ idn = NoIdentify
    /\ NoSpeakers
    /\ proc = NoChunk
    /\ env = [msgs |-> MaxMsgs, chunks |-> MaxChunks, stops |-> MaxStops,
              seglen |-> MaxChunkLen, closes |-> MaxPeerCloses, faults |-> 0,
              uploads |-> 0, deletes |-> 0]

\* ------------------------------------------------------- websocket_endpoint

\* manager.connect: accept, then register (a later transport of the same id
\* replaces the earlier entry).
connect(t) ==
    /\ pc[t] = "new"
    /\ ws' = [ws EXCEPT ![t] = "open"]
    /\ pc' = [pc EXCEPT ![t] = "recv"]
    /\ active_connections' =
          [c \in DOMAIN active_connections \cup {ConnIdOf(t)} |->
              IF c = ConnIdOf(t) THEN t ELSE active_connections[c]]
    /\ UNCHANGED <<session_connections, sessions, h, inbox, env, ncreated, hist, others>>

\* The peer closes its end; the server learns of it at its next send or receive.
PeerClose(t) ==
    /\ ws[t] = "open"
    /\ env.closes > 0
    /\ env' = [env EXCEPT !.closes = @ - 1]
    /\ ws' = [ws EXCEPT ![t] = "closed"]
    /\ UNCHANGED <<active_connections, session_connections, sessions, pc, h,
                   inbox, ncreated, hist, others>>

\* receive_text raises WebSocketDisconnect: manager.disconnect, and the task ends.
ReceiveDisconnect(t) ==
    /\ pc[t] = "recv"
    /\ ws[t] = "closed"
    /\ SetManager(disconnect(Manager, ConnIdOf(t)))
    /\ pc' = [pc EXCEPT ![t] = "done"]
    /\ UNCHANGED <<sessions, ws, h, env, ncreated, hist, others>>

\* An endpoint that reads the next frame while a handler is in progress.
CanReceiveInHandler(t) ==
    /\ pc[t] \notin {"new", "done"}
    /\ ws[t] = "open"
    /\ env.msgs > 0

\* A frame can be received by a task waiting in receive_text.
CanReceive(t) ==
    /\ pc[t] = "recv"
    /\ ws[t] = "open"
    /\ env.msgs > 0

\* A frame of the given type is received, and the first store call of its
\* handler returns (ok) or raises.
Received(type, ok) ==
    /\ ok \/ env.faults > 0
    /\ type = "audio_data" => env.chunks > 0
    /\ type = "stop_session" => env.stops > 0
    /\ env' = [env EXCEPT !.msgs = @ - 1,
                          !.chunks = IF type = "audio_data" THEN @ - 1 ELSE @,
                          !.stops = IF type = "stop_session" THEN @ - 1 ELSE @,
                          !.faults = IF ok THEN @ ELSE @ - 1]

\* A later store call of a handler returns (ok) or raises.
StoreCall(ok) ==
    /\ ok \/ env.faults > 0
    /\ env' = [env EXCEPT !.faults = IF ok THEN @ ELSE @ - 1]

\* The handler of t returns to the receive loop.
Return(t) ==
    /\ pc' = [pc EXCEPT ![t] = "recv"]
    /\ h' = [h EXCEPT ![t] = Idle]

\* ------------------------------------------------------ handle_start_session

\* start_session is received and create_session inserts the document (or raises).
ReceiveStart(t) ==
    /\ CanReceive(t)
    /\ ncreated < Len(SessionIdOrder)
    /\ \E ok \in BOOLEAN :
         /\ Received("start_session", ok)
         /\ LET sid == SessionIdOrder[ncreated + 1] IN
            /\ sessions' = IF ok THEN create_session(sessions, sid) ELSE sessions
            /\ ncreated' = IF ok THEN ncreated + 1 ELSE ncreated
            /\ h' = [h EXCEPT ![t] = [Idle EXCEPT !.type = "start_session",
                                       !.sid = IF ok THEN sid ELSE NoSid,
                                       !.ok = ok]]
    /\ pc' = [pc EXCEPT ![t] = "start_created"]
    /\ UNCHANGED <<active_connections, session_connections, ws, inbox, hist, others>>

\* For the record: c is added to the membership of sid.
RecordJoin(sid, c) ==
    hist' = IF sid \in hist.stopped
            THEN [hist EXCEPT !.late[sid] = @ \cup {c}] ELSE hist

\* For the record: the handler hr returns.
RecordReturn(hr) ==
    hist' = IF hr.type = "stop_session"
            THEN [hist EXCEPT !.stopped = @ \cup {hr.sid}] ELSE hist

\* create_session has returned: join the new session and reply, or report.
StartResume(t) ==
    /\ pc[t] = "start_created"
    /\ LET c == ConnIdOf(t)
           M == IF h[t].ok
                THEN send_personal_message(
                         add_connection_to_session(Manager, c, h[t].sid),
                         Frame("session_started", h[t].sid, <<>>), c)
                ELSE send_personal_message(Manager,
                         Frame("error", NoSid, <<>>), c)
       IN SetManager(M)
    /\ IF h[t].ok THEN RecordJoin(h[t].sid, ConnIdOf(t)) ELSE UNCHANGED hist
    /\ Return(t)
    /\ UNCHANGED <<sessions, ws, env, ncreated, others>>

\* ------------------------------------------------------- handle_join_session

\* join_session is received and get_session reads the document (or raises).
ReceiveJoin(t, sid) ==
    /\ CanReceive(t)
    /\ \E ok \in BOOLEAN :
         /\ Received("join_session", ok)
         /\ LET session == get_session(sessions, sid) IN
            h' = [h EXCEPT ![t] = [Idle EXCEPT !.type = "join_session",
                       !.sid = sid, !.ok = ok,
                       !.found = ok /\ session # <<>>,
                       !.segs = IF ok /\ session # <<>>
                                THEN session[1].segments ELSE <<>>]]
    /\ pc' = [pc EXCEPT ![t] = "join_read"]
    /\ UNCHANGED <<active_connections, session_connections, sessions, ws,
                   inbox, ncreated, hist, others>>

\* A join that does not look at what get_session returned.
join_session_unchecked(M, hr, c) ==
    send_personal_message(add_connection_to_session(M, c, hr.sid),
                          Frame("session_joined", hr.sid, hr.segs), c)

\* handle_join_session once get_session has returned: "Session not found" (or
\* what the store raised) to the sender, or the sender joins and is sent the
\* segments that were read.
join_session(M, hr, c) ==
    IF hr.found
    THEN send_personal_message(add_connection_to_session(M, c, hr.sid),
                               Frame("session_joined", hr.sid, hr.segs), c)
    ELSE send_personal_message(M, Frame("error", hr.sid, <<>>), c)

JoinResume(t) ==
    /\ pc[t] = "join_read"
    /\ SetManager(join_session(Manager, h[t], ConnIdOf(t)))
    /\ IF h[t].found THEN RecordJoin(h[t].sid, ConnIdOf(t)) ELSE UNCHANGED hist
    /\ Return(t)
    /\ UNCHANGED <<sessions, ws, env, ncreated, others>>

\* --------------------------------------------------------- handle_audio_data

\* audio_data is received and process_audio_chunk runs (transcribe, diarize and
\* embed are awaited; nothing shared is written).  A chunk without segments
\* ends the handler: nothing is stored and nothing is broadcast.
ReceiveAudio(t, sid, n) ==
    /\ CanReceive(t)
    /\ Received("audio_data", TRUE)
    /\ IF n = 0
       THEN UNCHANGED <<pc, h>>
       ELSE /\ pc' = [pc EXCEPT ![t] = "audio"]
            /\ h' = [h EXCEPT ![t] = [Idle EXCEPT !.type = "audio_data",
                        !.sid = sid, !.idx = 1,
                        !.known = sid \in DOMAIN sessions,
                        !.after_stop = sid \in hist.stopped,
                        !.segs = ChunkSegments(env.msgs, n)]]
    /\ UNCHANGED <<active_connections, session_connections, sessions, ws,
                   inbox, ncreated, hist, others>>

\* The loop over the segments: the previous add_segment has returned, the next
\* one pushes its segment (or raises).
AddSegment(t) ==
    /\ pc[t] = "audio"
    /\ h[t].ok
    /\ \E ok \in BOOLEAN :
         /\ StoreCall(ok)
         /\ sessions' = IF ok THEN add_segment(sessions, h[t].sid, h[t].segs[h[t].idx])
                        ELSE sessions
         /\ h' = [h EXCEPT ![t].idx = @ + 1, ![t].ok = ok]
         /\ pc' = [pc EXCEPT ![t] = IF ok /\ h[t].idx = Len(h[t].segs)
                                    THEN "snapshot" ELSE "audio"]
    /\ UNCHANGED <<active_connections, session_connections, ws, inbox,
                   ncreated, hist, others>>

\* An except branch that acknowledges the chunk all the same.
audio_failed_acknowledged(M, hr, c) ==
    send_personal_message(M, new_segments_frame(hr.sid, hr.segs), c)

\* handle_audio_data, its except branch: "Failed to process audio" to the sender.
audio_failed(M, hr, c) ==
    send_personal_message(M, Frame("error", hr.sid, <<>>), c)

\* add_segment raised: the loop is left, the error is sent, no broadcast.
AudioFailed(t) ==
    /\ pc[t] = "audio"
    /\ ~h[t].ok
    /\ SetManager(audio_failed(Manager, h[t], ConnIdOf(t)))
    /\ Return(t)
    /\ UNCHANGED <<sessions, ws, env, ncreated, hist, others>>

\* ---------------------------------------------------------handle_stop_session

\* stop_session is received and update_session sets the status (or raises).
ReceiveStop(t, sid) ==
    /\ CanReceive(t)
    /\ \E ok \in BOOLEAN :
         /\ Received("stop_session", ok)
         /\ sessions' = IF ok THEN update_session(sessions, sid, "completed")
                        ELSE sessions
         /\ h' = [h EXCEPT ![t] = [Idle EXCEPT !.type = "stop_session",
                                       !.sid = sid, !.ok = ok,
                                       !.known = sid \in DOMAIN sessions]]
    /\ pc' = [pc EXCEPT ![t] = "snapshot"]
    /\ UNCHANGED <<active_connections, session_connections, ws, inbox,
                   ncreated, hist, others>>

\* update_session raised: "Failed to stop session" to the sender.
StopFailed(t) ==
    /\ pc[t] = "snapshot"
    /\ ~h[t].ok
    /\ SetManager(send_personal_message(Manager,
                     Frame("error", h[t].sid, <<>>), ConnIdOf(t)))
    /\ Return(t)
    /\ UNCHANGED <<sessions, ws, env, ncreated, hist, others>>

\* ------------------------------------------------------ broadcast_to_session

\* What follows the broadcast in its handler: handle_stop_session deletes the
\* session's membership set, handle_audio_data returns.
after_broadcast(M, hr) ==
    IF hr.type = "stop_session" THEN clear_session(M, hr.sid) ELSE M

\* The connections of the loop that send_personal_message would send to.
Sendable(M, hr) == broadcast_pending(M, hr) \cap DOMAIN M.ac

\* The last store call of the handler has returned and broadcast_to_session
\* copies the membership set.  Unregistered members are passed over without an
\* await, so with no registered member the handler goes on at once.
BroadcastBegin(t) ==
    /\ pc[t] = "snapshot"
    /\ h[t].ok
    /\ LET hr == [h[t] EXCEPT !.snap = broadcast_snapshot(Manager, h[t].sid)] IN
       IF Sendable(Manager, hr) = {}
       THEN /\ SetManager(after_broadcast(Manager, hr))
            /\ RecordReturn(hr)
            /\ Return(t)
       ELSE /\ h' = [h EXCEPT ![t] = hr]
            /\ pc' = [pc EXCEPT ![t] = "bcast"]
            /\ UNCHANGED <<active_connections, session_connections, inbox, hist>>
    /\ UNCHANGED <<sessions, ws, env, ncreated, others>>

\* One send of the loop: to a peer that is open the frame is delivered, to a
\* closed one send_text raises and the connection is disconnected.
BroadcastSend(t, c) ==
    /\ pc[t] = "bcast"
    /\ c \in Sendable(Manager, h[t])
    /\ SetManager(send_personal_message(Manager, broadcast_frame(h[t]), c))
    /\ h' = [h EXCEPT ![t].visited = @ \cup {c},
                      ![t].got[c] = IF ws[active_connections[c]] = "open"
                                    THEN @ + 1 ELSE @]
    /\ UNCHANGED <<sessions, ws, pc, env, ncreated, hist, others>>

\* The last send has returned and no member is left to send to.
BroadcastEnd(t) ==
    /\ pc[t] = "bcast"
    /\ Sendable(Manager, h[t]) = {}
    /\ SetManager(after_broadcast(Manager, h[t]))
    /\ RecordReturn(h[t])
    /\ Return(t)
    /\ UNCHANGED <<sessions, ws, env, ncreated, others>>

\* ------------------------------------------------- handle_message, else

\* A frame whose type is none of the six is received and answered.  No await
\* lies between receive_text and send_text, so the send fails only for a frame
\* the peer sent just before it closed the transport: that frame is received
\* here as well.
ReceiveUnknown(t, message_type) ==
    /\ pc[t] = "recv"
    /\ ws[t] \in {"open", "closed"}
    /\ env.msgs > 0
    /\ env' = [env EXCEPT !.msgs = @ - 1]
    /\ SetManager(handle_unknown_type(Manager, message_type, ConnIdOf(t)))
    /\ UNCHANGED <<sessions, ws, pc, h, ncreated, hist, others>>

\* ---------------------------------------------- frames without a field

\* A frame that lacks a field its handler requires is received and answered.
\* As with an unknown type, no await lies between receive_text and send_text.
ReceiveInvalid(t, type, field) ==
    /\ pc[t] = "recv"
    /\ ws[t] \in {"open", "closed"}
    /\ env.msgs > 0
    /\ <<type, field>> \in RequiredFields
    /\ env' = [env EXCEPT !.msgs = @ - 1]
    /\ SetManager(handle_invalid(Manager, type, field, ConnIdOf(t)))
    /\ UNCHANGED <<sessions, ws, pc, h, ncreated, hist, others>>

\* ------------------------------------------- upload_audio_file, delete_session

\* The chunk number of the segments of an uploaded file (the chunks of
\* audio_data frames are numbered from 1).
UploadChunk == 0

\* POST /api/upload-audio: get_session finds the session, the file is read
\* and process_audio_chunk returns n segments.  (A request for a session that
\* get_session does not find ends with 404 and has changed nothing.)
UploadBegin(sid, n) ==
    /\ upload.stage = "none"
    /\ env.uploads > 0
    /\ get_session(sessions, sid) # <<>>
    /\ env' = [env EXCEPT !.uploads = @ - 1]
    /\ upload' = [stage |-> "storing", sid |-> sid,
                  segs |-> ChunkSegments(UploadChunk, n), idx |-> 1,
                  after_stop |-> sid \in hist.stopped]
    /\ UNCHANGED <<active_connections, session_connections, sessions, ws, pc,
                   h, inbox, ncreated, hist, al, idn, speakers, proc, adding>>

\* The loop over the segments: one add_segment.
UploadAddSegment ==
    /\ upload.stage = "storing"
    /\ upload.idx <= Len(upload.segs)
    /\ sessions' = add_segment(sessions, upload.sid, upload.segs[upload.idx])
    /\ upload' = [upload EXCEPT !.idx = @ + 1]
    /\ UNCHANGED <<active_connections, session_connections, ws, pc, h, inbox,
                   env, ncreated, hist, al, idn, speakers, proc, adding>>

\* After the loop: update_session records the file, and the request returns.
UploadUpdate ==
    /\ upload.stage = "storing"
    /\ upload.idx > Len(upload.segs)
    /\ sessions' = update_session_file(sessions, upload.sid)
    /\ upload' = NoRequest
    /\ UNCHANGED <<active_connections, session_connections, ws, pc, h, inbox,
                   env, ncreated, hist, al, idn, speakers, proc, adding>>

\* DELETE /api/sessions/{session_id}: get_session finds the session and it is
\* deleted.  (A request for a session that get_session does not find ends
\* with 404 and has changed nothing.)
DeleteSession(sid) ==
    /\ env.deletes > 0
    /\ get_session(sessions, sid) # <<>>
    /\ env' = [env EXCEPT !.deletes = @ - 1]
    /\ sessions' = delete_session(sessions, sid)
    /\ UNCHANGED <<active_connections, session_connections, ws, pc, h, inbox,
                   ncreated, hist, others>>

\* ------------------------------------------------------------ specification

\* One step of the endpoint coroutine of transport t, or of its peer.
Step(t) ==
    \/ connect(t)
    \/ PeerClose(t)
    \/ ReceiveDisconnect(t)
    \/ ReceiveStart(t)
    \/ StartResume(t)
    \/ \E sid \in SessionIds : ReceiveJoin(t, sid)
    \/ JoinResume(t)
    \/ \E sid \in SessionIds, n \in 0..env.seglen : ReceiveAudio(t, sid, n)
    \/ AddSegment(t)
    \/ \E sid \in SessionIds : ReceiveStop(t, sid)
    \/ BroadcastBegin(t)
    \/ \E c \in ConnIds : BroadcastSend(t, c)
    \/ BroadcastEnd(t)
    \/ \E message_type \in UnknownTypes : ReceiveUnknown(t, message_type)

Next == \E t \in Clients : Step(t)

\* The server over a reliable store.
Spec == Init /\ [][Next]_vars

\* ------------------------------------------- a chunk suspended in inference

\* An inference that runs on the thread of the event loop: while the chunk of
\* t is in a model call, t holds the loop.
inference_holds_loop_while_running(t) == pc[t] = "infer"

\* transcribe_audio, diarize_audio and get_speaker_embedding run their model
\* with run_in_executor and await the future: the handler of t does not hold
\* the event loop while a model works on its chunk.
inference_holds_loop(t) == FALSE

\* The event loop can run the coroutine of u: no other coroutine holds it.
LoopFree(u) == \A t \in Transports \ {u} : ~inference_holds_loop(t)

\* A disconnect that cancels the handler its connection runs.
handler_cancelled_on_disconnect(M, c) == c \notin DOMAIN M.ac

\* disconnect only removes the id from the registry and the membership sets;
\* it cancels no task, so a handler goes on whatever the registry holds.
handler_cancelled(M, c) == FALSE

\* audio_data is received and process_audio_chunk is suspended in a model
\* call; the n segments are the ones its audio will yield.
ReceiveAudioAwait(t, sid, n) ==
    /\ CanReceive(t)
    /\ Received("audio_data", TRUE)
    /\ pc' = [pc EXCEPT ![t] = "infer"]
    /\ h' = [h EXCEPT ![t] = [Idle EXCEPT !.type = "audio_data",
                !.sid = sid, !.idx = 1,
                !.known = sid \in DOMAIN sessions,
                !.after_stop = sid \in hist.stopped,
                !.segs = ChunkSegments(env.msgs, n)]]
    /\ UNCHANGED <<active_connections, session_connections, sessions, ws,
                   inbox, ncreated, hist, others>>

\* process_audio_chunk returns: the loop over the segments begins, or, without
\* segments, the handler returns.
InferenceDone(t) ==
    /\ pc[t] = "infer"
    /\ ~handler_cancelled(Manager, ConnIdOf(t))
    /\ IF h[t].segs = <<>>
       THEN Return(t)
       ELSE /\ pc' = [pc EXCEPT ![t] = "audio"]
            /\ UNCHANGED h
    /\ UNCHANGED <<active_connections, session_connections, sessions, ws,
                   inbox, env, ncreated, hist, others>>

\* One step of the coroutine of t, or of its peer, when the event loop can
\* run it.
StepInference(t) ==
    /\ LoopFree(t)
    /\ \/ Step(t)
       \/ \E sid \in SessionIds, n \in 0..env.seglen : ReceiveAudioAwait(t, sid, n)
       \/ InferenceDone(t)

NextInference == \E t \in Clients : StepInference(t)

\* The server with the inference of a chunk taking time.
SpecInference == Init /\ [][NextInference]_vars

\* ------------------------------------------- the server, chunks in parallel

\* Frames received, and audio_data frames among them, in the specification
\* with more than one chunk in flight.
MaxParallelMsgs == 3
MaxParallelChunks == 2

InitParallel ==
    /\ InitServer
    /\ al = NoCall
    /\ idn = NoIdentify
    /\ NoSpeakers
    /\ proc = NoChunk
    /\ env = [msgs |-> MaxParallelMsgs, chunks |-> MaxParallelChunks,
              stops |-> MaxStops, seglen |-> MaxChunkLen,
              closes |-> MaxPeerCloses, faults |-> 0, uploads |-> 0,
              deletes |-> 0]

\* The server over a reliable store, with clients that may send chunks of the
\* same session at the same time.
SpecParallel == InitParallel /\ [][Next]_vars

\* ------------------------------------------ the server, store unreliable

\* Frames received in the specification with an unreliable store.
MaxFaultyMsgs == 3

InitFaulty ==
    /\ InitServer
    /\ al = NoCall
    /\ idn = NoIdentify
    /\ NoSpeakers
    /\ proc = NoChunk
    /\ env = [msgs |-> MaxFaultyMsgs, chunks |-> MaxChunks, stops |-> MaxStops,
              seglen |-> MaxChunkLen, closes |-> MaxPeerCloses,
              faults |-> MaxStoreFailures, uploads |-> 0, deletes |-> 0]

\* One step of a handler that only a failed store call or a frame without a
\* required field leads to.
StepFaulty(t) ==
    \/ AudioFailed(t)
    \/ StopFailed(t)
    \/ \E r \in RequiredFields : ReceiveInvalid(t, r[1], r[2])

NextFaulty == Next \/ \E t \in Clients : StepFaulty(t)

\* The server over a store whose calls may raise, with clients that may leave
\* out required fields.
SpecFaulty == InitFaulty /\ [][NextFaulty]_vars

\* ------------------------------------------- the server, frames malformed

\* Frames received in the specification with malformed frames.
MaxMalformedMsgs == 3

\* The error handle_message answers a frame with that is JSON but no object:
\* message.get raises AttributeError inside its try, and the except branch
\* sends the text of the exception.
not_object_error ==
    [type |-> "error", sid |-> NoSid, segs |-> <<>>,
     message |-> <<"object has no attribute 'get'">>]

\* A frame that is JSON but not an object is received and answered.  No await
\* lies between receive_text and send_text.
ReceiveNotObject(t) ==
    /\ pc[t] = "recv"
    /\ ws[t] \in {"open", "closed"}
    /\ env.msgs > 0
    /\ env' = [env EXCEPT !.msgs = @ - 1]
    /\ SetManager(send_personal_message(Manager, not_object_error, ConnIdOf(t)))
    /\ UNCHANGED <<sessions, ws, pc, h, ncreated, hist, others>>

\* A text frame that is not JSON is received: json.loads raises in the
\* endpoint, outside handle_message, and the endpoint's except Exception
\* branch calls manager.disconnect and leaves the receive loop.
ReceiveMalformed(t) ==
    /\ pc[t] = "recv"
    /\ ws[t] \in {"open", "closed"}
    /\ env.msgs > 0
    /\ env' = [env EXCEPT !.msgs = @ - 1]
    /\ SetManager(disconnect(Manager, ConnIdOf(t)))
    /\ pc' = [pc EXCEPT ![t] = "done"]
    /\ UNCHANGED <<sessions, ws, h, ncreated, hist, others>>

InitMalformed ==
    /\ InitServer
    /\ al = NoCall
    /\ idn = NoIdentify
    /\ NoSpeakers
    /\ proc = NoChunk
    /\ env = [msgs |-> MaxMalformedMsgs, chunks |-> MaxChunks,
              stops |-> MaxStops, seglen |-> MaxChunkLen,
              closes |-> MaxPeerCloses, faults |-> 0, uploads |-> 0,
              deletes |-> 0]

\* The receipt of a frame that is not what a handler expects.
StepMalformed(t) ==
    \/ ReceiveMalformed(t)
    \/ ReceiveNotObject(t)
    \/ \E r \in RequiredFields : ReceiveInvalid(t, r[1], r[2])

NextMalformed == Next \/ \E t \in Clients : StepMalformed(t)

\* The server with clients that may send frames that are not JSON, not an
\* object, or lack a field.
SpecMalformed == InitMalformed /\ [][NextMalformed]_vars

\* ------------------------------------------- the server, an id used twice

\* Frames received in the specification with a reconnecting client.
MaxReconnectMsgs == 2

\* The transport that connects with the connection id another one has put in
\* its URL, and that id.
Reconnecting == "t3"
ReconnectId == "c1"

\* manager.connect for a websocket whose URL names the id c: accept, then
\* active_connections[c] = websocket, whatever the registry held for c.
ConnectAs(t, c) ==
    /\ pc[t] = "new"
    /\ ws' = [ws EXCEPT ![t] = "open"]
    /\ pc' = [pc EXCEPT ![t] = "recv"]
    /\ active_connections' =
          [x \in DOMAIN active_connections \cup {c} |->
              IF x = c THEN t ELSE active_connections[x]]
    /\ UNCHANGED <<session_connections, sessions, h, inbox, env, ncreated,
                   hist, others>>

\* receive_text raises WebSocketDisconnect in the endpoint of a websocket
\* whose URL names the id c: manager.disconnect(c), and the task ends.
ReceiveDisconnectAs(t, c) ==
    /\ pc[t] = "recv"
    /\ ws[t] = "closed"
    /\ SetManager(disconnect(Manager, c))
    /\ pc' = [pc EXCEPT ![t] = "done"]
    /\ UNCHANGED <<sessions, ws, h, env, ncreated, hist, others>>

InitReconnect ==
    /\ InitServer
    /\ al = NoCall
    /\ idn = NoIdentify
    /\ NoSpeakers
    /\ proc = NoChunk
    /\ env = [msgs |-> MaxReconnectMsgs, chunks |-> MaxChunks,
              stops |-> MaxStops, seglen |-> MaxChunkLen,
              closes |-> MaxPeerCloses, faults |-> 0, uploads |-> 0,
              deletes |-> 0]

\* One step of the endpoint coroutine of the reconnecting transport, or of
\* its peer.
StepReconnect ==
    \/ ConnectAs(Reconnecting, ReconnectId)
    \/ PeerClose(Reconnecting)
    \/ ReceiveDisconnectAs(Reconnecting, ReconnectId)

NextReconnect == Next \/ StepReconnect

\* The server with a client that connects a second websocket under the id of
\* its first.
SpecReconnect == InitReconnect /\ [][NextReconnect]_vars

\* --------------------------------------------- the server with its REST API

\* Frames received and stop_session frames among them, segments of one chunk
\* or file, files uploaded and sessions deleted in the specification with
\* the REST endpoints.
MaxRestMsgs == 3
MaxRestStops == 2
MaxRestChunkLen == 1
MaxUploads == 1
MaxDeletes == 1

InitRest ==
    /\ InitServer
    /\ al = NoCall
    /\ idn = NoIdentify
    /\ NoSpeakers
    /\ proc = NoChunk
    /\ env = [msgs |-> MaxRestMsgs, chunks |-> MaxChunks, stops |-> MaxRestStops,
              seglen |-> MaxRestChunkLen, closes |-> MaxPeerCloses, faults |-> 0,
              uploads |-> MaxUploads, deletes |-> MaxDeletes]

\* One step of a REST request that writes to the session store.
StepRest ==
    \/ \E sid \in SessionIds, n \in 0..env.seglen : UploadBegin(sid, n)
    \/ UploadAddSegment
    \/ UploadUpdate
    \/ \E sid \in SessionIds : DeleteSession(sid)

NextRest == Next \/ StepRest

\* The WebSocket endpoint together with upload_audio_file and delete_session.
SpecRest == InitRest /\ [][NextRest]_vars

\* ------------------------------- align_transcription_with_diarization

\* Times on a grid of 0..MaxTime; at most MaxSpans transcript spans and
\* MaxTurns diarization turns in one call.
MaxTime == 3
MaxSpans == 2
MaxTurns == 2

Max(a, b) == IF a >= b THEN a ELSE b
Min(a, b) == IF a <= b THEN a ELSE b

\* A text is a sequence of characters; str.strip removes the white space at
\* both ends.
IsSpace(ch) == ch = " "
RECURSIVE lstrip(_)
lstrip(text) ==
    IF text # <<>> /\ IsSpace(Head(text)) THEN lstrip(Tail(text)) ELSE text
RECURSIVE rstrip(_)
rstrip(text) ==
    IF text # <<>> /\ IsSpace(text[Len(text)])
    THEN rstrip(SubSeq(text, 1, Len(text) - 1)) ELSE text
strip(text) == rstrip(lstrip(text))

\* models.SpeakerSegment; the confidence in tenths (8, 3 and 5 for 0.8, 0.3, 0.5)
SpeakerSegment(speaker_id, start_time, end_time, text, confidence) ==
    [speaker_id |-> speaker_id, start_time |-> start_time,
     end_time |-> end_time, text |-> text, confidence |-> confidence]

\* overlap_duration of a transcript span and a diarization turn
overlap_duration(trans_seg, diar_seg) ==
    Max(0, Min(trans_seg.end, diar_seg.end) - Max(trans_seg.start, diar_seg.start))

is_better_overlap_any(duration, best_overlap) == duration > 0

\* A test that lets a later turn of equal overlap replace the one kept.
is_better_overlap_last(duration, best_overlap) ==
    duration > 0 /\ duration >= best_overlap

\* A test that lets a turn without overlap replace "Unknown".
is_better_overlap_touching(duration, best_overlap) == duration >= best_overlap

\* The test that replaces the best turn kept so far.
is_better_overlap(duration, best_overlap) == duration > best_overlap

\* The loop over the diarization turns from the i-th on; best is the speaker
\* and the overlap kept so far.
RECURSIVE find_best_speaker(_, _, _, _)
find_best_speaker(trans_seg, diarization_segments, i, best) ==
    IF i > Len(diarization_segments) THEN best
    ELSE LET duration == overlap_duration(trans_seg, diarization_segments[i]) IN
         find_best_speaker(trans_seg, diarization_segments, i + 1,
            IF is_better_overlap(duration, best.overlap)
            THEN [speaker |-> diarization_segments[i].speaker, overlap |-> duration]
            ELSE best)

\* A fallback that gives its segments the confidence of the no-overlap case.
RECURSIVE fallback_segments_low(_, _)
fallback_segments_low(transcription, i) ==
    IF i > Len(transcription) THEN <<>>
    ELSE <<SpeakerSegment("Speaker_1", transcription[i].start,
                          transcription[i].end, transcription[i].text, 3)>>
         \o fallback_segments_low(transcription, i + 1)

\* The fallback branch: no diarization (or no transcript span).  Every span
\* becomes a segment of "Speaker_1", its text as transcribed.
RECURSIVE fallback_segments(_, _)
fallback_segments(transcription, i) ==
    IF i > Len(transcription) THEN <<>>
    ELSE <<SpeakerSegment("Speaker_1", transcription[i].start,
                          transcription[i].end, transcription[i].text, 5)>>
         \o fallback_segments(transcription, i + 1)

\* The loop over the transcript spans from the i-th on.
RECURSIVE aligned_segments(_, _, _)
aligned_segments(transcription, diarization_segments, i) ==
    IF i > Len(transcription) THEN <<>>
    ELSE LET trans_seg == transcription[i]
             trans_text == strip(trans_seg.text)
             best == find_best_speaker(trans_seg, diarization_segments, 1,
                        [speaker |-> "Unknown", overlap |-> 0])
             rest == aligned_segments(transcription, diarization_segments, i + 1)
         IN IF trans_text = <<>> THEN rest
            ELSE <<SpeakerSegment(best.speaker, trans_seg.start, trans_seg.end,
                       trans_text, IF best.overlap > 0 THEN 8 ELSE 3)>> \o rest

\* diarization is None when the diarizer is unavailable or failed, else a
\* dict (truthy even with an empty list of turns).
align_transcription_with_diarization(transcription, diarization) ==
    IF ~diarization.available \/ transcription = <<>>
    THEN fallback_segments(transcription, 1)
    ELSE aligned_segments(transcription, diarization.segments, 1)

\* The inputs: spans and turns with start < end on the grid, each list in
\* order of start time, as the transcriber and the diarizer return them.
Times == 0..MaxTime
Texts == {<<>>, <<" ">>, <<"a">>, <<" ", "a", " ">>}
Labels == {"A", "B"}
Spans == {[start |-> a, end |-> b, text |-> x] :
             a \in Times, b \in Times, x \in Texts}
Turns == {[start |-> a, end |-> b, speaker |-> l] :
             a \in Times, b \in Times, l \in Labels}
WellFormed(list) ==
    /\ \A i \in 1..Len(list) : list[i].start < list[i].end
    /\ \A i \in 1..Len(list) - 1 : list[i].start <= list[i + 1].start
Transcriptions ==
    {tr \in UNION {[1..n -> Spans] : n \in 0..MaxSpans} : WellFormed(tr)}
Diarizations ==
    {[available |-> FALSE, segments |-> <<>>]} \cup
    {[available |-> TRUE, segments |-> d] :
        d \in {x \in UNION {[1..n -> Turns] : n \in 0..MaxTurns} : WellFormed(x)}}

\* One call, before it is made.
InitAlign ==
    /\ InitServer
    /\ env = [msgs |-> 0, chunks |-> 0, stops |-> 0, seglen |-> 0,
              closes |-> 0, faults |-> 0, uploads |-> 0,
              deletes |-> 0]
    /\ al \in {[stage |-> "called", transcription |-> tr, diarization |-> d,
                segments |-> <<>>] : tr \in Transcriptions, d \in Diarizations}
    /\ idn = NoIdentify
    /\ NoSpeakers
    /\ proc = NoChunk

\* The call returns.
Align ==
    /\ al.stage = "called"
    /\ al' = [al EXCEPT !.stage = "aligned",
                !.segments = align_transcription_with_diarization(
                                 al.transcription, al.diarization)]
    /\ UNCHANGED <<active_connections, session_connections, sessions, ws, pc,
                   h, inbox, env, ncreated, hist, idn, speakers, proc,
                   upload, adding>>

NextAlign == Align

\* Calls of align_transcription_with_diarization, over all its inputs.
SpecAlign == InitAlign /\ [][NextAlign]_vars

\* ----------------------------------------------------------- identify_speaker

MaxCoord == 2
MaxKnown == 2

\* An embedding is a vector of two integer coordinates, not both zero; None is
\* the empty tuple.
NoEmbedding == <<>>
Embeddings == {e \in (-1..MaxCoord) \X (-1..MaxCoord) : e # <<0, 0>>}

\* sklearn's cosine_similarity of two embeddings, as the pair of the dot
\* product d and the product n of the squared norms: its value is d / sqrt(n).
cosine_similarity(a, b) ==
    [d |-> a[1] * b[1] + a[2] * b[2],
     n |-> (a[1] * a[1] + a[2] * a[2]) * (b[1] * b[1] + b[2] * b[2])]

\* A threshold given in tenths, as such a pair.
as_similarity(tenths) == [d |-> tenths, n |-> 100]

\* A test that an equal similarity passes.
similarity_exceeds_or_equal(a, b) ==
    IF a.d >= 0
    THEN IF b.d >= 0 THEN a.d * a.d * b.n >= b.d * b.d * a.n ELSE TRUE
    ELSE IF b.d >= 0 THEN FALSE ELSE a.d * a.d * b.n <= b.d * b.d * a.n

\* similarity > best_similarity
similarity_exceeds(a, b) ==
    IF a.d >= 0
    THEN IF b.d >= 0 THEN a.d * a.d * b.n > b.d * b.d * a.n ELSE TRUE
    ELSE IF b.d >= 0 THEN FALSE ELSE a.d * a.d * b.n < b.d * b.d * a.n

\* A match that leaves the similarity to beat where it was.
better_match_kept(name, similarity, best) ==
    [match |-> name, similarity |-> best.similarity]

\* best_similarity = similarity; best_match = speaker_name
better_match(name, similarity, best) ==
    [match |-> name, similarity |-> similarity]

\* The loop over the registry from its i-th entry on; best is the match and
\* the similarity kept so far.
RECURSIVE find_best_match(_, _, _, _)
find_best_match(known, embedding, i, best) ==
    IF i > Len(known) THEN best.match
    ELSE LET similarity == cosine_similarity(embedding, known[i].embedding)
         IN find_best_match(known, embedding, i + 1,
               IF similarity_exceeds(similarity, best.similarity)
               THEN better_match(known[i].name, similarity, best)
               ELSE best)

identify_speaker(known, embedding, threshold) ==
    IF known = <<>> \/ embedding = NoEmbedding THEN "None"
    ELSE find_best_match(known, embedding, 1,
             [match |-> "None", similarity |-> as_similarity(threshold)])

\* The inputs: registries of up to MaxKnown names in the order they were
\* added, thresholds in tenths (0.8 is the default).
Names == {"Alice", "Bob"}
Thresholds == {0, 8, 10}
Registries ==
    {r \in UNION {[1..n -> [name : Names, embedding : Embeddings]] :
                     n \in 0..MaxKnown} :
        \A i, j \in 1..Len(r) : i # j => r[i].name # r[j].name}

\* One call, before it is made.
InitIdentify ==
    /\ InitServer
    /\ env = [msgs |-> 0, chunks |-> 0, stops |-> 0, seglen |-> 0,
              closes |-> 0, faults |-> 0, uploads |-> 0,
              deletes |-> 0]
    /\ al = NoCall
    /\ NoSpeakers
    /\ proc = NoChunk
    /\ idn \in {[stage |-> "called", known_speakers |-> r, embedding |-> e,
                 threshold |-> th, result |-> "None"] :
                   r \in Registries, e \in Embeddings \cup {NoEmbedding},
                   th \in Thresholds}

\* The call returns.
Identify ==
    /\ idn.stage = "called"
    /\ idn' = [idn EXCEPT !.stage = "identified",
                  !.result = identify_speaker(idn.known_speakers, idn.embedding,
                                              idn.threshold)]
    /\ UNCHANGED <<server, al, speakers, proc>>

NextIdentify == Identify

\* Calls of identify_speaker, over all its inputs.
SpecIdentify == InitIdentify /\ [][NextIdentify]_vars

\* ---------------------------------------------------------- speaker profiles

MaxProfiles == 2

\* SpeakerRepository.create_speaker: insert_one
create_speaker(collection, speaker_data) == Append(collection, speaker_data)

\* add_known_speaker: known_speakers[name] = embedding (a dict keeps the place
\* of a key it already has)
add_known_speaker(known, name, embedding) ==
    IF \E i \in 1..Len(known) : known[i].name = name
    THEN [i \in 1..Len(known) |->
            IF known[i].name = name THEN [name |-> name, embedding |-> embedding]
            ELSE known[i]]
    ELSE Append(known, [name |-> name, embedding |-> embedding])

\* The process starts: SpeechProcessor() has an empty registry, and
\* startup_event connects to the store and loads the models.  What a request
\* of the process before had under way is gone with it.
startup_event ==
    /\ known_speakers' = <<>>
    /\ creating' = NoCreation
    /\ UNCHANGED <<speaker_profiles, server, al, idn, proc>>

\* A speaker is created (POST /api/speakers or add_speaker): the embedding is
\* extracted and create_speaker inserts the profile.
CreateSpeaker(name, embedding) ==
    /\ creating = NoCreation
    /\ Len(speaker_profiles) < MaxProfiles
    /\ speaker_profiles' = create_speaker(speaker_profiles,
                               [name |-> name, embedding |-> embedding])
    /\ creating' = <<[name |-> name, embedding |-> embedding]>>
    /\ UNCHANGED <<known_speakers, server, al, idn, proc>>

\* create_speaker has returned: the speaker is added to the registry.
RegisterSpeaker ==
    /\ creating # NoCreation
    /\ known_speakers' = add_known_speaker(known_speakers, creating[1].name,
                                           creating[1].embedding)
    /\ creating' = NoCreation
    /\ UNCHANGED <<speaker_profiles, server, al, idn, proc>>

NextSpeakers ==
    \/ startup_event
    \/ \E name \in Names, embedding \in Embeddings : CreateSpeaker(name, embedding)
    \/ RegisterSpeaker

InitSpeakers ==
    /\ InitServer
    /\ env = [msgs |-> 0, chunks |-> 0, stops |-> 0, seglen |-> 0,
              closes |-> 0, faults |-> 0, uploads |-> 0,
              deletes |-> 0]
    /\ al = NoCall
    /\ idn = NoIdentify
    /\ NoSpeakers
    /\ proc = NoChunk

\* Speaker creations and restarts of the process.
SpecSpeakers == InitSpeakers /\ [][NextSpeakers]_vars

\* -------------------------------------------------------- process_audio_chunk

\* Samples per second of the processed audio (settings.sample_rate, scaled).
SampleRate == 4

\* identify_speaker's default threshold, in tenths
DefaultThreshold == 8

\* len(audio_data[start_sample:end_sample]): a slice ends where the audio ends
segment_audio_len(audio_len, start_time, end_time) ==
    LET start_sample == start_time * SampleRate
        end_sample == end_time * SampleRate
    IN Max(0, Min(end_sample, audio_len) - Min(start_sample, audio_len))

\* A test that finds no window too short.
window_too_short_never(len) == FALSE

\* len(segment_audio) < self.sample_rate * 0.5
window_too_short(len) == 2 * len < SampleRate

\* get_speaker_embedding up to the call of the embedding model: whether the
\* model is run for the segment.
embedding_requested(embedding_model, audio_len, segment) ==
    /\ embedding_model
    /\ ~window_too_short(segment_audio_len(audio_len, segment.start_time,
                                           segment.end_time))

\* transcribe_audio: what Whisper returned, or the empty result if it raised.
transcribe_audio(outcome) ==
    [raised |-> FALSE,
     segments |-> IF outcome.failed THEN <<>> ELSE outcome.segments]

\* A diarization that lets the exception of its pipeline through.
diarize_audio_raising(outcome) ==
    [raised |-> outcome.kind = "failed",
     diarization |-> IF outcome.kind = "ok"
                     THEN [available |-> TRUE, segments |-> outcome.segments]
                     ELSE [available |-> FALSE, segments |-> <<>>]]

\* diarize_audio: the turns, or None without a pipeline or if it raised.
diarize_audio(outcome) ==
    [raised |-> FALSE,
     diarization |-> IF outcome.kind = "ok"
                     THEN [available |-> TRUE, segments |-> outcome.segments]
                     ELSE [available |-> FALSE, segments |-> <<>>]]

\* The except clause of process_audio_chunk: the call returns no segment.
chunk_aborted(call) ==
    [call EXCEPT !.stage = "returned", !.segments = <<>>, !.aborted = TRUE]

\* The inputs of a call: what the stages may give.
ChunkTexts == {<<" ">>, <<"a">>}
ChunkTranscriptions ==
    {tr \in Transcriptions : \A k \in 1..Len(tr) : tr[k].text \in ChunkTexts}
ChunkDiarizations ==
    {d \in Diarizations :
        /\ d.available
        /\ Len(d.segments) <= 1
        /\ \A k \in 1..Len(d.segments) : d.segments[k].speaker = "A"}
ChunkEmbeddings == {<<2, 1>>, <<1, 1>>}
ChunkRegistries ==
    {<<>>, <<[name |-> "Alice", embedding |-> <<1, 0>>]>>}
TranscribeOutcomes ==
    {[failed |-> TRUE, segments |-> <<>>]} \cup
    {[failed |-> FALSE, segments |-> tr] : tr \in ChunkTranscriptions}
DiarizeOutcomes ==
    {[kind |-> k, segments |-> <<>>] : k \in {"failed", "unavailable"}} \cup
    {[kind |-> "ok", segments |-> d.segments] : d \in ChunkDiarizations}

\* preprocess_audio; without samples the call returns no segment.
Preprocess ==
    /\ proc.stage = "received"
    /\ proc' = IF proc.audio_len = 0
               THEN [proc EXCEPT !.stage = "returned"]
               ELSE [proc EXCEPT !.stage = "preprocessed"]
    /\ UNCHANGED <<server, al, idn, speakers>>

\* await transcribe_audio
Transcribe ==
    /\ proc.stage = "preprocessed"
    /\ \E outcome \in TranscribeOutcomes :
         LET r == transcribe_audio(outcome) IN
           proc' = IF r.raised THEN chunk_aborted(proc)
                   ELSE [proc EXCEPT !.stage = "transcribed",
                            !.transcribe = IF outcome.failed THEN "failed" ELSE "ok",
                            !.transcription = r.segments]
    /\ UNCHANGED <<server, al, idn, speakers>>

\* await diarize_audio, then align_transcription_with_diarization
Diarize ==
    /\ proc.stage = "transcribed"
    /\ \E outcome \in DiarizeOutcomes :
         LET r == diarize_audio(outcome)
             segments == align_transcription_with_diarization(
                             proc.transcription, r.diarization)
         IN proc' = IF r.raised THEN chunk_aborted(proc)
                    ELSE [proc EXCEPT !.stage = "identifying",
                             !.diarize = outcome.kind,
                             !.diarization = r.diarization,
                             !.aligned = segments,
                             !.segments = segments,
                             !.i = 1]
    /\ UNCHANGED <<server, al, idn, speakers>>

\* One turn of the loop over the segments: get_speaker_embedding (the model is
\* run, and returns an embedding or raises, or it is not run), and with an
\* embedding identify_speaker and the overwrite of speaker_id on a match.
EmbedSegment ==
    /\ proc.stage = "identifying"
    /\ proc.i <= Len(proc.segments)
    /\ LET requested == embedding_requested(proc.embedding_model, proc.audio_len,
                                            proc.segments[proc.i])
       IN \E embedding \in (IF requested THEN ChunkEmbeddings ELSE {})
                              \cup {NoEmbedding} :
            LET known_speaker ==
                    IF embedding # NoEmbedding
                    THEN identify_speaker(known_speakers, embedding, DefaultThreshold)
                    ELSE "None"
            IN proc' = [proc EXCEPT
                          !.i = @ + 1,
                          !.requested = IF requested THEN @ \cup {proc.i} ELSE @,
                          !.embeddings = Append(@, embedding),
                          !.names = Append(@, known_speaker),
                          !.segments[proc.i].speaker_id =
                              IF known_speaker # "None" THEN known_speaker ELSE @]
    /\ UNCHANGED <<server, al, idn, speakers>>

\* return segments
ReturnSegments ==
    /\ proc.stage = "identifying"
    /\ proc.i > Len(proc.segments)
    /\ proc' = [proc EXCEPT !.stage = "returned"]
    /\ UNCHANGED <<server, al, idn, speakers>>

NextChunk ==
    \/ Preprocess
    \/ Transcribe
    \/ Diarize
    \/ EmbedSegment
    \/ ReturnSegments

\* One call, before it is made; the registry holds the stored profiles.
InitChunk ==
    /\ InitServer
    /\ env = [msgs |-> 0, chunks |-> 0, stops |-> 0, seglen |-> 0,
              closes |-> 0, faults |-> 0, uploads |-> 0,
              deletes |-> 0]
    /\ al = NoCall
    /\ idn = NoIdentify
    /\ known_speakers \in ChunkRegistries
    /\ speaker_profiles = known_speakers
    /\ creating = NoCreation
    /\ proc \in {[NoChunk EXCEPT !.stage = "received", !.audio_len = n,
                                 !.embedding_model = m] :
                    n \in 0..(MaxTime * SampleRate), m \in BOOLEAN}

\* Calls of process_audio_chunk, over the results of its stages.
SpecChunk == InitChunk /\ [][NextChunk]_vars

\* ------------------------------------------------- adding a speaker by sample

\* The sample rates a request may state for its sample (POST /api/speakers
\* always computes with settings.sample_rate).
SampleRates == {SampleRate \div 2, SampleRate, 2 * SampleRate}

\* The window get_speaker_embedding cuts for a speaker's sample: from 0 to
\* len(audio_array) / sample_rate seconds of the preprocessed audio.
speaker_window_len(audio_len, sample_rate) ==
    LET end_sample == (audio_len * SampleRate) \div sample_rate
    IN Max(0, Min(end_sample, audio_len))

\* A test that only looks for the embedding model.
speaker_sample_rejected_without_model(embedding_model, audio_len, sample_rate) ==
    ~embedding_model

\* get_speaker_embedding up to the call of the embedding model, for a
\* speaker's sample: whether it returns None without running the model.
speaker_sample_rejected(embedding_model, audio_len, sample_rate) ==
    \/ ~embedding_model
    \/ window_too_short(speaker_window_len(audio_len, sample_rate))

\* A request to add a speaker (an add_speaker frame or POST /api/speakers)
\* comes with its sample: the sample is preprocessed and get_speaker_embedding
\* either returns None at once, and the request ends with the error, or runs
\* the embedding model.
AddSpeakerBegin(name, audio_len, sample_rate) ==
    /\ adding.stage \in {"none", "done"}
    /\ Len(speaker_profiles) < MaxProfiles
    /\ adding' =
         IF speaker_sample_rejected(adding.embedding_model, audio_len, sample_rate)
         THEN [NoSample EXCEPT !.stage = "done", !.name = name,
                  !.audio_len = audio_len, !.sample_rate = sample_rate,
                  !.embedding_model = adding.embedding_model,
                  !.outcome = "error"]
         ELSE [NoSample EXCEPT !.stage = "embedding", !.name = name,
                  !.audio_len = audio_len, !.sample_rate = sample_rate,
                  !.embedding_model = adding.embedding_model,
                  !.invoked = TRUE]
    /\ UNCHANGED <<active_connections, session_connections, sessions, ws, pc,
                   h, inbox, env, ncreated, hist, upload, al, idn, speakers,
                   proc>>

\* The embedding model returns the embedding and create_speaker inserts the
\* profile; or the model raised, get_speaker_embedding returns None and the
\* request ends with the error.
AddSpeakerEmbedded(embedding) ==
    /\ adding.stage = "embedding"
    /\ IF embedding = NoEmbedding
       THEN /\ adding' = [adding EXCEPT !.stage = "done", !.outcome = "error"]
            /\ UNCHANGED speaker_profiles
       ELSE /\ adding' = [adding EXCEPT !.stage = "created",
                                        !.embedding = embedding]
            /\ speaker_profiles' = create_speaker(speaker_profiles,
                                      [name |-> adding.name,
                                       embedding |-> embedding])
    /\ UNCHANGED <<active_connections, session_connections, sessions, ws, pc,
                   h, inbox, env, ncreated, hist, upload, al, idn,
                   known_speakers, creating, proc>>

\* create_speaker has returned: the speaker is added to the registry and the
\* request ends with speaker_added.
AddSpeakerRegister ==
    /\ adding.stage = "created"
    /\ known_speakers' = add_known_speaker(known_speakers, adding.name,
                                           adding.embedding)
    /\ adding' = [adding EXCEPT !.stage = "done", !.outcome = "added"]
    /\ UNCHANGED <<active_connections, session_connections, sessions, ws, pc,
                   h, inbox, env, ncreated, hist, upload, al, idn,
                   speaker_profiles, creating, proc>>

NextAddSpeaker ==
    \/ \E name \in Names, audio_len \in 0..(MaxTime * SampleRate),
          sample_rate \in SampleRates :
            AddSpeakerBegin(name, audio_len, sample_rate)
    \/ \E embedding \in ChunkEmbeddings \cup {NoEmbedding} :
            AddSpeakerEmbedded(embedding)
    \/ AddSpeakerRegister

\* The processor with or without an embedding model, and no speaker yet.
InitAddSpeaker ==
    /\ active_connections = <<>>
    /\ session_connections = <<>>
    /\ sessions = <<>>
    /\ ws = [t \in Transports |-> "new"]
    /\ pc = [t \in Transports |-> "new"]
    /\ h = [t \in Transports |-> Idle]
    /\ inbox = [t \in Transports |-> NoFrame]
    /\ ncreated = 0
    /\ hist = [stopped |-> {}, late |-> [s \in SessionIds |-> {}]]
    /\ upload = NoRequest
    /\ env = [msgs |-> 0, chunks |-> 0, stops |-> 0, seglen |-> 0,
              closes |-> 0, faults |-> 0, uploads |-> 0,
              deletes |-> 0]
    /\ al = NoCall
    /\ idn = NoIdentify
    /\ NoSpeakers
    /\ proc = NoChunk
    /\ adding \in {[NoSample EXCEPT !.embedding_model = m] : m \in BOOLEAN}

\* Requests to add a speaker, one after another.
SpecAddSpeaker == InitAddSpeaker /\ [][NextAddSpeaker]_vars

\* ================================================================ properties

\* The sessions whose membership set holds c.
SessionsOf(c) ==
    {s \in DOMAIN session_connections : c \in session_connections[s]}

\* The broadcast of t delivers its frame to c in this step.
Delivers(t, c) ==
    /\ pc[t] = "bcast"
    /\ h'[t].type = h[t].type
    /\ h'[t].got[c] = h[t].got[c] + 1

\* The broadcast of t visits c in this step and the send fails.
FailedSend(t, c) ==
    /\ pc[t] = "bcast"
    /\ c \in h'[t].visited \ h[t].visited
    /\ h'[t].got[c] = h[t].got[c]

\* C1: when a broadcast is over, every connection that was a member when it
\* began and is still registered has been sent the event, whatever sends to
\* other members failed; and a member the send to which fails is, in that
\* step, removed from the registry and from every membership set.
C1_BroadcastIsolation ==
    [][\A t \in Transports :
         /\ (pc[t] = "bcast" /\ pc'[t] # "bcast") =>
               \A c \in h[t].snap :
                   c \in DOMAIN active_connections => h[t].got[c] > 0
         /\ \A c \in ConnIds : FailedSend(t, c) =>
               /\ c \notin DOMAIN active_connections'
               /\ \A s \in DOMAIN session_connections' :
                     c \notin session_connections'[s]]_vars

\* A broadcast has visited all its members: the send to one failed, and that
\* one is gone from the registry and the sets; another one has the event.
C1_Witness ==
    \E t \in Transports :
        /\ pc[t] = "bcast"
        /\ h[t].visited = h[t].snap
        /\ \E c, d \in h[t].snap :
              /\ h[t].got[c] = 0
              /\ c \notin DOMAIN active_connections
              /\ SessionsOf(c) = {}
              /\ h[t].got[d] = 1
              /\ inbox[active_connections[d]] = broadcast_frame(h[t])

\* C2: every connection id is in the membership set of at most one session.
C2_AtMostOneSession ==
    \A c \in ConnIds : Cardinality(SessionsOf(c)) <= 1

\* C3: a broadcast sends only to connections that were members when it began,
\* and to none of them twice, whatever joins, leaves or stops meanwhile.
C3_SnapshotBroadcast ==
    \A t \in Transports : pc[t] = "bcast" =>
        \A c \in ConnIds :
            /\ h[t].got[c] <= 1
            /\ (h[t].got[c] > 0 \/ c \in h[t].visited) => c \in h[t].snap

\* A connection has joined the session while its broadcast was under way, and
\* the broadcast has served its members without it.
C3_Witness ==
    \E t \in Transports :
        /\ pc[t] = "bcast"
        /\ h[t].sid \in DOMAIN session_connections
        /\ session_connections[h[t].sid] \ h[t].snap # {}
        /\ h[t].visited = h[t].snap
        /\ \E c \in h[t].snap : h[t].got[c] = 1

\* What disconnect(c) is to do to the manager state M, for the result D.
DisconnectContract(M, D, c) ==
    /\ DOMAIN D.ac = DOMAIN M.ac \ {c}
    /\ \A x \in DOMAIN D.ac : D.ac[x] = M.ac[x]
    /\ DOMAIN D.sc = DOMAIN M.sc
    /\ \A s \in DOMAIN D.sc : D.sc[s] = M.sc[s] \ {c}
    /\ D.inbox = M.inbox
    /\ (c \notin DOMAIN M.ac /\ \A s \in DOMAIN M.sc : c \notin M.sc[s]) => D = M

\* C4: in every reachable state, for every connection id (connected, already
\* disconnected or never connected), disconnect removes the id from the registry
\* and from every membership set, leaves all else as it is, and a second
\* disconnect changes nothing; and the disconnect the endpoint runs when its
\* peer is gone does just that to the state.
C4_DisconnectIdempotent ==
    /\ [](\A c \in ConnIds :
            LET D == disconnect(Manager, c) IN
                /\ DisconnectContract(Manager, D, c)
                /\ disconnect(D, c) = D)
    /\ [][\A t \in Transports : (pc[t] = "recv" /\ pc'[t] = "done") =>
            DisconnectContract(Manager, Manager', ConnIdOf(t))]_vars

\* A failed send has disconnected a connection, and its endpoint, the peer
\* gone, is about to disconnect it again; another connection is registered and
\* a member of a session.
C4_Witness ==
    \E t \in Transports :
        /\ pc[t] = "recv"
        /\ ws[t] = "closed"
        /\ ConnIdOf(t) \notin DOMAIN active_connections
        /\ SessionsOf(ConnIdOf(t)) = {}
        /\ \E d \in DOMAIN active_connections : SessionsOf(d) # {}

\* The handler of a join_session whose session get_session did not find
\* returns in this step.
JoinUnknownReturns(t) ==
    /\ pc[t] = "join_read"
    /\ h[t].ok
    /\ ~h[t].found
    /\ pc'[t] # "join_read"

\* C5: when a join_session for a session the store did not know returns, the
\* sender is in no membership set it was not in before, its transport, if it
\* can be sent to, holds the error, and no session_joined was sent.
C5_JoinUnknownFails ==
    [][\A t \in Transports : JoinUnknownReturns(t) =>
         LET c == ConnIdOf(t) IN
           /\ \A s \in DOMAIN session_connections' :
                 c \in session_connections'[s] =>
                     s \in DOMAIN session_connections /\ c \in session_connections[s]
           /\ (c \in DOMAIN active_connections /\ ws[t] = "open") =>
                 inbox'[t] = Frame("error", h[t].sid, <<>>)
           /\ inbox'[t] = inbox[t] \/ inbox'[t].type = "error"]_vars

\* A connection has asked to join a session the store does not know: it holds
\* the error and is in no membership set.
C5_Witness ==
    \E t \in Transports : \E sid \in SessionIds :
        /\ sid \notin DOMAIN sessions
        /\ inbox[t] = Frame("error", sid, <<>>)
        /\ pc[t] = "recv"
        /\ SessionsOf(ConnIdOf(t)) = {}

\* The handler of a stop_session returns in this step.
StopReturns(t) ==
    /\ h[t].type = "stop_session"
    /\ h[t].ok
    /\ pc[t] \in {"snapshot", "bcast"}
    /\ pc'[t] = "recv"

\* The membership set of sid, empty if there is none.
Members(sid) ==
    IF sid \in DOMAIN session_connections THEN session_connections[sid] ELSE {}

\* The handler of a stop_session takes the frame in this step and its
\* update_session returns.
StopBegins(t) ==
    /\ pc[t] = "recv"
    /\ pc'[t] = "snapshot"
    /\ h'[t].type = "stop_session"
    /\ h'[t].ok

\* C6: the update of stop_session leaves a stored session completed, and
\* completed it stays; when the handler returns, every connection that was a
\* member when the broadcast began and is still registered has been sent
\* session_stopped, and the session has no membership set afterwards; the
\* broadcast begins with the members of that moment, and a membership set goes
\* only in a step in which a stop_session handler for its session returns,
\* that is, after the broadcast.
C6_StopSession ==
    [][\A t \in Transports :
        /\ (StopBegins(t) /\ h'[t].known) =>
              /\ h'[t].sid \in DOMAIN sessions'
              /\ sessions'[h'[t].sid].status = "completed"
        /\ \A s \in DOMAIN sessions : sessions[s].status = "completed" =>
              s \in DOMAIN sessions' /\ sessions'[s].status = "completed"
        /\ StopReturns(t) =>
              /\ \A c \in (IF pc[t] = "bcast" THEN h[t].snap ELSE Members(h[t].sid)) :
                    c \in DOMAIN active_connections =>
                        pc[t] = "bcast" /\ h[t].got[c] = 1
              /\ h[t].sid \notin DOMAIN session_connections'
        /\ \A c \in ConnIds :
              (h[t].type = "stop_session" /\ Delivers(t, c)) =>
                  inbox'[active_connections[c]]
                      = Frame("session_stopped", h[t].sid, <<>>)
        /\ (h[t].type = "stop_session" /\ pc[t] = "snapshot" /\ pc'[t] = "bcast") =>
              h'[t].snap = Members(h[t].sid)
        /\ \A s \in DOMAIN session_connections \ DOMAIN session_connections' :
              \E u \in Transports : StopReturns(u) /\ h[u].sid = s]_vars

\* A session has been stopped: it is completed, two transports hold its
\* session_stopped and it has no membership set.
C6_Witness ==
    \E sid \in hist.stopped :
        /\ sid \in DOMAIN sessions
        /\ sessions[sid].status = "completed"
        /\ sid \notin DOMAIN session_connections
        /\ \A t \in Clients : inbox[t] = Frame("session_stopped", sid, <<>>)

\* The segments of the chunk that the session sid has stored, in stored order.
ChunkStored(sid, chunk) ==
    SelectSeq(sessions[sid].segments, LAMBDA x : x[1] = chunk)

\* The handler of t has stored the segments of its chunk up to the one it is at.
StoredSoFar(t) ==
    /\ h[t].sid \in DOMAIN sessions
    /\ ChunkStored(h[t].sid, h[t].segs[1][1]) = SubSeq(h[t].segs, 1, h[t].idx - 1)

\* The handler of t runs a chunk received after a stop_session of its session
\* had returned.
ChunkAfterStop(t) == h[t].type = "audio_data" /\ h[t].after_stop

\* C7 as stated: a chunk received after stop_session has returned is stored
\* (in a session the store held) and its new_segments reaches no connection.
C7_NoDeliveryAfterStop ==
    \A t \in Transports : ChunkAfterStop(t) =>
        /\ h[t].ok
        /\ h[t].known => StoredSoFar(t)
        /\ \A c \in ConnIds : h[t].got[c] = 0

\* C7: a chunk received after stop_session has returned is stored (in a
\* session the store held), and its new_segments reaches only connections that
\* started or joined the session after that stop_session had returned.
C7_DeliveryToLateJoinersOnly ==
    \A t \in Transports : ChunkAfterStop(t) =>
        /\ h[t].ok
        /\ h[t].known => StoredSoFar(t)
        /\ \A c \in ConnIds : h[t].got[c] > 0 => c \in hist.late[h[t].sid]

\* A chunk received after the stop is stored, and its new_segments has reached
\* a connection that joined after the stop.
C7_Witness ==
    \E t \in Transports :
        /\ ChunkAfterStop(t)
        /\ pc[t] = "bcast"
        /\ h[t].sid \in DOMAIN sessions
        /\ sessions[h[t].sid].status = "completed"
        /\ sessions[h[t].sid].segments = h[t].segs
        /\ \E c \in hist.late[h[t].sid] :
              /\ h[t].got[c] = 1
              /\ inbox[active_connections[c]] = new_segments_frame(h[t].sid, h[t].segs)

\* C8: the handler of a chunk for a session the store held when the chunk came
\* and that is completed has not failed and has stored every segment of the
\* chunk up to the one it is at.
C8_AppendNotGated ==
    \A t \in Transports :
        (/\ h[t].type = "audio_data"
         /\ h[t].known
         /\ h[t].sid \in DOMAIN sessions
         /\ sessions[h[t].sid].status = "completed") =>
            /\ h[t].ok
            /\ pc[t] \in {"audio", "snapshot", "bcast"}
            /\ ChunkStored(h[t].sid, h[t].segs[1][1])
                  = SubSeq(h[t].segs, 1, h[t].idx - 1)

\* A chunk of two segments received after the stop of its session: both are
\* stored in the completed session.
C8_Witness ==
    \E t \in Transports :
        /\ ChunkAfterStop(t)
        /\ Len(h[t].segs) = 2
        /\ h[t].idx = 3
        /\ h[t].sid \in DOMAIN sessions
        /\ sessions[h[t].sid].status = "completed"
        /\ ChunkStored(h[t].sid, h[t].segs[1][1]) = h[t].segs

\* C9: while the handler of a chunk runs (for a session the store held when
\* the chunk came), what the session has stored of the chunk is the chunk's
\* segments in span order up to the one the handler is at; and when the
\* handler delivers new_segments, the session has stored all the chunk's
\* segments, and the event carries just these, once each and in that order.
C9_ChunkOrder ==
    /\ [](\A t \in Transports : (h[t].type = "audio_data" /\ h[t].known) =>
            /\ \A k \in 1..Len(h[t].segs) : h[t].segs[k][2] = k
            /\ StoredSoFar(t))
    /\ [][\A t \in Transports : \A c \in ConnIds :
            (h[t].type = "audio_data" /\ Delivers(t, c)) =>
                LET event == inbox'[active_connections[c]] IN
                  /\ event.type = "new_segments"
                  /\ event.sid = h[t].sid
                  /\ event.segs = h[t].segs
                  /\ h[t].known =>
                        ChunkStored(h[t].sid, h[t].segs[1][1]) = event.segs]_vars

\* A transport holds the new_segments of a chunk of two segments, and the
\* session has stored just these two.
C9_Witness ==
    \E t \in Transports :
        /\ inbox[t].type = "new_segments"
        /\ Len(inbox[t].segs) = 2
        /\ inbox[t].sid \in DOMAIN sessions
        /\ sessions[inbox[t].sid].segments = inbox[t].segs

\* ---- C10: the aligned speaker is a turn of largest overlap

\* The overlap of a span and a turn as section 4.3 defines it.
SpanTurnOverlap(span, turn) ==
    LET lo == IF span.start >= turn.start THEN span.start ELSE turn.start
        hi == IF span.end <= turn.end THEN span.end ELSE turn.end
    IN IF hi > lo THEN hi - lo ELSE 0

LargestOverlap(span, turns) ==
    IF turns = <<>> THEN 0
    ELSE CHOOSE m \in {SpanTurnOverlap(span, turns[j]) : j \in 1..Len(turns)} :
            \A j \in 1..Len(turns) : SpanTurnOverlap(span, turns[j]) <= m

HasText(span) == \E i \in 1..Len(span.text) : span.text[i] # " "

\* C10: with diarization available, align returns one segment for each span
\* that has text, in order, and for every such span that overlaps some turn the
\* segment's speaker_id is the label of a turn whose overlap with the span is
\* the largest of all turns, and its confidence is 0.8.
C10_AlignLargestOverlap ==
    (al.stage = "aligned" /\ al.diarization.available) =>
        LET spoken == SelectSeq(al.transcription, HasText)
            turns == al.diarization.segments
        IN /\ Len(al.segments) = Len(spoken)
           /\ \A k \in 1..Len(spoken) :
                LargestOverlap(spoken[k], turns) > 0 =>
                    /\ al.segments[k].confidence = 8
                    /\ \E j \in 1..Len(turns) :
                         /\ turns[j].speaker = al.segments[k].speaker_id
                         /\ SpanTurnOverlap(spoken[k], turns[j])
                               = LargestOverlap(spoken[k], turns)

\* A span that overlaps two turns of different labels, the first one more: the
\* segment carries the first turn's label.
C10_Witness ==
    /\ al.stage = "aligned"
    /\ al.diarization.available
    /\ Len(al.diarization.segments) = 2
    /\ Len(al.segments) = 1
    /\ Len(al.transcription) = 1
    /\ LET turns == al.diarization.segments
           span == al.transcription[1]
       IN /\ SpanTurnOverlap(span, turns[1]) > SpanTurnOverlap(span, turns[2])
          /\ SpanTurnOverlap(span, turns[2]) > 0
          /\ turns[1].speaker # turns[2].speaker
          /\ al.segments[1].speaker_id = turns[1].speaker
          /\ al.segments[1].confidence = 8

\* ---- C11, C12: ties and spans that no turn overlaps

\* The first turn of the list whose overlap with the span is the largest.
FirstLargest(span, turns) ==
    CHOOSE j \in 1..Len(turns) :
        /\ SpanTurnOverlap(span, turns[j]) = LargestOverlap(span, turns)
        /\ \A i \in 1..(j - 1) :
              SpanTurnOverlap(span, turns[i]) < LargestOverlap(span, turns)

\* Several turns of the list have the largest overlap with the span.
Tied(span, turns) ==
    \E i, j \in 1..Len(turns) :
        /\ i # j
        /\ SpanTurnOverlap(span, turns[i]) = LargestOverlap(span, turns)
        /\ SpanTurnOverlap(span, turns[j]) = LargestOverlap(span, turns)

\* C11: with diarization available, a span with text that several turns
\* overlap equally and most gets the label of the first of these turns in the
\* list (which is in order of start), and confidence 0.8.
C11_AlignTieBreak ==
    (al.stage = "aligned" /\ al.diarization.available) =>
        LET spoken == SelectSeq(al.transcription, HasText)
            turns == al.diarization.segments
        IN /\ Len(al.segments) = Len(spoken)
           /\ \A k \in 1..Len(spoken) :
                (LargestOverlap(spoken[k], turns) > 0 /\ Tied(spoken[k], turns)) =>
                    /\ al.segments[k].speaker_id
                          = turns[FirstLargest(spoken[k], turns)].speaker
                    /\ al.segments[k].confidence = 8

\* The span (0,2) against the turns (0,1,A) and (1,2,B): the segment is A's.
C11_Witness ==
    /\ al.stage = "aligned"
    /\ al.diarization.available
    /\ Len(al.transcription) = 1
    /\ al.transcription[1].start = 0 /\ al.transcription[1].end = 2
    /\ al.diarization.segments = <<[start |-> 0, end |-> 1, speaker |-> "A"],
                                    [start |-> 1, end |-> 2, speaker |-> "B"]>>
    /\ Len(al.segments) = 1
    /\ al.segments[1].speaker_id = "A"
    /\ al.segments[1].confidence = 8

\* C12: with diarization available, a span with text that no turn overlaps
\* (turns that end where it starts or start where it ends do not, and an empty
\* list has none) gets the label "Unknown" and confidence 0.3.
C12_AlignNoOverlap ==
    (al.stage = "aligned" /\ al.diarization.available) =>
        LET spoken == SelectSeq(al.transcription, HasText)
            turns == al.diarization.segments
        IN /\ Len(al.segments) = Len(spoken)
           /\ \A k \in 1..Len(spoken) :
                LargestOverlap(spoken[k], turns) = 0 =>
                    /\ al.segments[k].speaker_id = "Unknown"
                    /\ al.segments[k].confidence = 3

\* A span that a turn touches at its start and no turn overlaps: its segment
\* is "Unknown" with confidence 0.3.
C12_Witness ==
    /\ al.stage = "aligned"
    /\ al.diarization.available
    /\ Len(al.segments) = 1
    /\ Len(al.transcription) = 1
    /\ \E j \in 1..Len(al.diarization.segments) :
          al.diarization.segments[j].end = al.transcription[1].start
    /\ LargestOverlap(al.transcription[1], al.diarization.segments) = 0
    /\ al.segments[1].speaker_id = "Unknown"
    /\ al.segments[1].confidence = 3

\* ---- C13, C14: the fallback, and spans without text

\* C13: with diarization unavailable, every span with text has a segment of
\* "Speaker_1" with confidence 0.5 and the span's start and end, at the span's
\* place in the result.
C13_AlignUnavailable ==
    (al.stage = "aligned" /\ ~al.diarization.available) =>
        \A i \in 1..Len(al.transcription) : HasText(al.transcription[i]) =>
            /\ i <= Len(al.segments)
            /\ al.segments[i].speaker_id = "Speaker_1"
            /\ al.segments[i].confidence = 5
            /\ al.segments[i].start_time = al.transcription[i].start
            /\ al.segments[i].end_time = al.transcription[i].end

\* Two spans with text and no diarization: two segments of "Speaker_1".
C13_Witness ==
    /\ al.stage = "aligned"
    /\ ~al.diarization.available
    /\ Len(al.transcription) = 2
    /\ \A i \in 1..2 : HasText(al.transcription[i])
    /\ Len(al.segments) = 2
    /\ \A i \in 1..2 :
          /\ al.segments[i].speaker_id = "Speaker_1"
          /\ al.segments[i].confidence = 5
          /\ al.segments[i].start_time = al.transcription[i].start
          /\ al.segments[i].end_time = al.transcription[i].end

\* C14: every segment align returns has text that is not empty once trimmed.
C14_NoEmptyText ==
    al.stage = "aligned" =>
        \A k \in 1..Len(al.segments) : strip(al.segments[k].text) # <<>>

\* ---- C15, C16: identify_speaker

\* The order of similarities: d / sqrt(n) is monotone in its signed square,
\* and two signed squares compare by cross multiplication.
SignedSquare(sim, n) == (IF sim.d >= 0 THEN 1 ELSE -1) * sim.d * sim.d * n
MoreSimilar(a, b) == SignedSquare(a, b.n) > SignedSquare(b, a.n)

\* The similarity of the i-th entry of the registry of the call to its query,
\* and the threshold of the call.
EntrySimilarity(i) ==
    cosine_similarity(idn.embedding, idn.known_speakers[i].embedding)
ThresholdSimilarity == [d |-> idn.threshold, n |-> 100]

Identified == idn.stage = "identified" /\ idn.embedding # NoEmbedding

\* C15: identify_speaker returns a name only of an entry whose similarity to
\* the query is strictly greater than the threshold; with all similarities at
\* or below the threshold, or an empty registry, it returns None.
C15_IdentifyStrict ==
    Identified =>
        /\ idn.result # "None" =>
              \E i \in 1..Len(idn.known_speakers) :
                  /\ idn.known_speakers[i].name = idn.result
                  /\ MoreSimilar(EntrySimilarity(i), ThresholdSimilarity)
        /\ (\A i \in 1..Len(idn.known_speakers) : ~MoreSimilar(EntrySimilarity(i), ThresholdSimilarity)) =>
              idn.result = "None"

\* An entry equal to the query and the threshold 1.0: the similarity is the
\* threshold, and the result is None.
C15_Witness ==
    /\ Identified
    /\ idn.threshold = 10
    /\ \E i \in 1..Len(idn.known_speakers) :
          /\ idn.known_speakers[i].embedding = idn.embedding
          /\ (~MoreSimilar(EntrySimilarity(i), ThresholdSimilarity)
             /\ ~MoreSimilar(ThresholdSimilarity, EntrySimilarity(i)))
    /\ idn.result = "None"

\* C16: a name identify_speaker returns is that of an entry than which no
\* entry of the registry is more similar to the query; and with a threshold
\* below 1, a query equal to a registered embedding gets a name.
C16_IdentifyMaximal ==
    Identified =>
        /\ idn.result # "None" =>
              \E i \in 1..Len(idn.known_speakers) :
                  /\ idn.known_speakers[i].name = idn.result
                  /\ \A j \in 1..Len(idn.known_speakers) : 
                        ~MoreSimilar(EntrySimilarity(j), EntrySimilarity(i))
        /\ (/\ idn.threshold < 10
            /\ \E i \in 1..Len(idn.known_speakers) :
                  idn.known_speakers[i].embedding = idn.embedding) =>
              idn.result # "None"

\* Two entries above the default threshold, the second less similar than the
\* first: the result is the first one's name.
C16_Witness ==
    /\ Identified
    /\ idn.threshold = 8
    /\ Len(idn.known_speakers) = 2
    /\ MoreSimilar(EntrySimilarity(2), ThresholdSimilarity)
    /\ MoreSimilar(EntrySimilarity(1), EntrySimilarity(2))
    /\ idn.known_speakers[1].embedding = idn.embedding
    /\ idn.result = idn.known_speakers[1].name

\* ---- C17: the registry and the speaker store

\* C17: with no creation under way, every stored speaker profile has an entry
\* of its name in the registry.
C17_RegistryCoversStore ==
    creating = NoCreation =>
        \A i \in 1..Len(speaker_profiles) :
            \E k \in 1..Len(known_speakers) :
                known_speakers[k].name = speaker_profiles[i].name

\* ---- C18, C19: process_audio_chunk

\* The samples of the audio of the call that lie in the window of its k-th
\* segment.
WindowSamples(k) ==
    {n \in 0..(proc.audio_len - 1) :
        /\ proc.aligned[k].start_time * SampleRate <= n
        /\ n < proc.aligned[k].end_time * SampleRate}

\* The loop of the call has dealt with its k-th segment, and overwritten its
\* speaker_id.
Overwritten(k) == proc.embeddings[k] # NoEmbedding /\ proc.names[k] # "None"

\* C18: the embedding model is run only for segments whose window holds at
\* least half a second of samples, and an embedding comes only from a run; a
\* segment the loop has dealt with carries the identified name if an embedding
\* was returned and identify_speaker gave a name, and otherwise, like the
\* segments the loop has not reached, it is as align returned it.
C18_EmbeddingGate ==
    proc.stage \in {"identifying", "returned"} =>
        /\ Len(proc.segments) = Len(proc.aligned)
        /\ \A k \in 1..Len(proc.segments) :
              IF k <= Len(proc.names)
              THEN /\ k \in proc.requested =>
                         2 * Cardinality(WindowSamples(k)) >= SampleRate
                   /\ proc.embeddings[k] # NoEmbedding => k \in proc.requested
                   /\ proc.segments[k] =
                         [proc.aligned[k] EXCEPT !.speaker_id =
                             IF Overwritten(k) THEN proc.names[k] ELSE @]
              ELSE /\ k \notin proc.requested
                   /\ proc.segments[k] = proc.aligned[k]

\* A call has returned two segments: the first, with a window long enough,
\* carries the identified name; for the second, whose window holds a sample
\* but less than half a second, the model was not run and the label is align's.
C18_Witness ==
    /\ proc.stage = "returned"
    /\ proc.embedding_model
    /\ Len(proc.segments) = 2
    /\ 1 \in proc.requested
    /\ Overwritten(1)
    /\ proc.segments[1].speaker_id = proc.names[1]
    /\ proc.segments[1].speaker_id # proc.aligned[1].speaker_id
    /\ 2 \notin proc.requested
    /\ WindowSamples(2) # {}
    /\ proc.segments[2] = proc.aligned[2]

\* The k-th span of the transcription of the call has its fallback segment at
\* the k-th place of the segments as aligned, and a segment of its times at
\* that place of the segments as they are.
FallbackSegmentOf(k) ==
    /\ k <= Len(proc.aligned)
    /\ proc.aligned[k].speaker_id = "Speaker_1"
    /\ proc.aligned[k].start_time = proc.transcription[k].start
    /\ proc.aligned[k].end_time = proc.transcription[k].end
    /\ k <= Len(proc.segments)
    /\ proc.segments[k].start_time = proc.transcription[k].start
    /\ proc.segments[k].end_time = proc.transcription[k].end

\* C19: no call is cut short by an exception; after a failed transcription its
\* result is empty and the diarization still runs before the call returns;
\* after a failed diarization its result is None and, once aligned, every span
\* with text has its fallback segment.
C19_DegradeNotFail ==
    /\ ~proc.aborted
    /\ proc.transcribe = "failed" =>
          /\ proc.transcription = <<>>
          /\ proc.stage = "returned" => proc.diarize # "pending"
    /\ proc.diarize = "failed" =>
          /\ ~proc.diarization.available
          /\ proc.stage \in {"identifying", "returned"}
          /\ \A k \in 1..Len(proc.transcription) :
                HasText(proc.transcription[k]) => FallbackSegmentOf(k)

\* A call whose diarization failed has returned the fallback segments of two
\* spans with text.
C19_Witness ==
    /\ proc.stage = "returned"
    /\ proc.diarize = "failed"
    /\ proc.transcribe = "ok"
    /\ Len(proc.transcription) = 2
    /\ \A k \in 1..2 : HasText(proc.transcription[k]) /\ FallbackSegmentOf(k)
    /\ Len(proc.segments) = 2


\* The state handle_message of an unknown type may not touch, apart from the
\* manager's: the sessions, the speaker store and registry, the transports and
\* the coroutines.
UnknownLeavesAlone ==
    /\ sessions' = sessions
    /\ speaker_profiles' = speaker_profiles
    /\ known_speakers' = known_speakers
    /\ ws' = ws
    /\ pc' = pc

\* C20 as stated: a frame of a type that is none of the six known ones puts,
\* on the sender's transport, the error that contains the type, changes no
\* registration, membership, session or registry, and leaves the sender
\* registered and its coroutine receiving.
C20_UnknownTypeNoChange ==
    [][\A t \in Transports : \A message_type \in UnknownTypes :
         ReceiveUnknown(t, message_type) =>
            /\ inbox'[t] = unknown_type_error(message_type)
            /\ active_connections' = active_connections
            /\ session_connections' = session_connections
            /\ UnknownLeavesAlone]_vars

\* C20: a frame of a type that is none of the six known ones changes no
\* session and no registry and leaves every coroutine and transport as it was.
\* If the sender is registered and its transport can be sent to, it gets the
\* error that contains the type, and no registration or membership changes.
\* If the sender is registered and the peer has closed the transport, nothing
\* is delivered and the failed send unregisters the sender and takes it out
\* of every membership set, and nothing else.  If the sender is not
\* registered, nothing is sent and nothing changes.
C20_UnknownTypeError ==
    [][\A t \in Transports : \A message_type \in UnknownTypes :
         ReceiveUnknown(t, message_type) =>
            LET c == ConnIdOf(t)
                registered == c \in DOMAIN active_connections
            IN
            /\ UnknownLeavesAlone
            /\ (registered /\ ws[t] = "open") =>
                  /\ inbox'[t] = unknown_type_error(message_type)
                  /\ \A u \in Transports \ {t} : inbox'[u] = inbox[u]
                  /\ active_connections' = active_connections
                  /\ session_connections' = session_connections
            /\ (registered /\ ws[t] # "open") =>
                  /\ inbox' = inbox
                  /\ active_connections' = disconnect(Manager, c).ac
                  /\ session_connections' = disconnect(Manager, c).sc
            /\ ~registered =>
                  /\ inbox' = inbox
                  /\ active_connections' = active_connections
                  /\ session_connections' = session_connections]_vars

\* A member of a session has sent a frame of an unknown type: it holds the
\* error naming the type, is still registered and a member, and its coroutine
\* waits for the next frame.
C20_Witness ==
    \E t \in Transports : \E message_type \in UnknownTypes :
        /\ inbox[t] = unknown_type_error(message_type)
        /\ message_type \in {inbox[t].message[k] : k \in 1..Len(inbox[t].message)}
        /\ pc[t] = "recv"
        /\ ws[t] = "open"
        /\ ConnIdOf(t) \in DOMAIN active_connections
        /\ SessionsOf(ConnIdOf(t)) # {}

\* The handler that t runs was given a session id that the store did not hold
\* when the frame was received (for a join_session: that get_session did not
\* find), and no store call of it raised.
NamesUnknownSession(t) ==
    /\ h[t].type \in {"join_session", "audio_data", "stop_session"}
    /\ h[t].ok
    /\ IF h[t].type = "join_session" THEN ~h[t].found ELSE ~h[t].known

\* The handler that t runs returns to the receive loop in this step.
HandlerReturns(t) ==
    /\ pc[t] \notin {"new", "recv", "done"}
    /\ pc'[t] = "recv"

\* C22: when the handler of a frame that names a session the store does not
\* know returns, and the sender is registered with a transport that can be
\* sent to, the sender's transport holds the error and the handler has
\* delivered its frame to no connection.
C22_UnknownSessionError ==
    [][\A t \in Transports :
         (/\ HandlerReturns(t)
          /\ NamesUnknownSession(t)
          /\ ConnIdOf(t) \in DOMAIN active_connections
          /\ ws[t] = "open") =>
            /\ inbox'[t] = Frame("error", h[t].sid, <<>>)
            /\ \A c \in ConnIds : h[t].got[c] = 0]_vars

\* The handler of a chunk whose add_segment raised reports in this step.
AudioFailedReturns(t) ==
    /\ h[t].type = "audio_data"
    /\ ~h[t].ok
    /\ HandlerReturns(t)

\* The sender of the frame t handles is registered and can be sent to.
CanBeSentTo(t) ==
    /\ ConnIdOf(t) \in DOMAIN active_connections
    /\ active_connections[ConnIdOf(t)] = t
    /\ ws[t] = "open"

\* C23 as stated: when an add_segment of a chunk has raised, the sender, if
\* it can be sent to, is sent the new_segments event of the chunk and no error.
C23_AcknowledgedDespiteFailure ==
    [][\A t \in Transports : (AudioFailedReturns(t) /\ CanBeSentTo(t)) =>
            inbox'[t] = new_segments_frame(h[t].sid, h[t].segs)]_vars

\* C23: when an add_segment of a chunk raises, the loop ends there: the
\* segments before it stay stored, it and the ones after it are not, no
\* new_segments event is sent to anyone, and the sender, if it can be sent
\* to, is sent the error; the step that reports writes nothing to the store
\* and sends to no other connection.
C23_FailureReported ==
    /\ [](\A t \in Transports : (h[t].type = "audio_data" /\ ~h[t].ok) =>
            /\ pc[t] = "audio"
            /\ \A c \in ConnIds : h[t].got[c] = 0
            /\ (h[t].known /\ h[t].sid \in DOMAIN sessions) =>
                  ChunkStored(h[t].sid, h[t].segs[1][1])
                     = SubSeq(h[t].segs, 1, h[t].idx - 2))
    /\ [][\A t \in Transports : AudioFailedReturns(t) =>
            /\ sessions' = sessions
            /\ \A u \in Transports \ {t} : inbox'[u] = inbox[u]
            /\ CanBeSentTo(t) => inbox'[t] = Frame("error", h[t].sid, <<>>)
            /\ ~CanBeSentTo(t) => inbox'[t] = inbox[t]]_vars

\* The second add_segment of a chunk of two segments has raised: the first
\* segment is stored and the second is not, the handler is about to report,
\* and the other member of the session, which can be sent to, has been sent
\* nothing of the chunk.
C23_Witness ==
    \E t, u \in Transports :
        /\ t # u
        /\ h[t].type = "audio_data"
        /\ ~h[t].ok
        /\ h[t].known
        /\ Len(h[t].segs) = 2
        /\ h[t].idx = 3
        /\ h[t].sid \in DOMAIN sessions
        /\ sessions[h[t].sid].segments = <<h[t].segs[1]>>
        /\ h[t].sid \in DOMAIN session_connections
        /\ {ConnIdOf(t), ConnIdOf(u)} \subseteq session_connections[h[t].sid]
        /\ CanBeSentTo(t)
        /\ CanBeSentTo(u)
        /\ inbox[u].type # "new_segments"

\* The handler of a start_session is resumed in this step, create_session
\* having returned (ok) or raised.
StartReturns(t, ok) ==
    /\ pc[t] = "start_created"
    /\ h[t].ok = ok
    /\ pc'[t] = "recv"

\* C26: the create_session of a start_session that returns inserts a session
\* that is new, active and without segments.  When the handler is resumed it
\* sends to no connection but the sender and writes nothing to the store; the
\* sender, if it can be sent to, is sent session_started with the new id, stays
\* registered and is a member of the new session, every other membership being
\* as it was.  A sender whose transport the peer has closed is disconnected by
\* the failed send, and one that is no longer registered is still added.  When
\* create_session raised, the sender is added to no membership set and, if it
\* can be sent to, is sent the error.
C26_StartSession ==
    [][\A t \in Transports :
         LET c == ConnIdOf(t)
             sid == h'[t].sid
             joined == add_connection_to_session(Manager, c, h[t].sid)
         IN
         /\ (pc[t] = "recv" /\ pc'[t] = "start_created" /\ h'[t].ok) =>
               /\ sid \in SessionIds \ DOMAIN sessions
               /\ DOMAIN sessions' = DOMAIN sessions \cup {sid}
               /\ sessions'[sid] = [status |-> "active", segments |-> <<>>]
               /\ \A s \in DOMAIN sessions : sessions'[s] = sessions[s]
         /\ (pc[t] = "recv" /\ pc'[t] = "start_created" /\ ~h'[t].ok) =>
               sessions' = sessions
         /\ StartReturns(t, TRUE) =>
               /\ sessions' = sessions
               /\ \A u \in Transports \ {t} : inbox'[u] = inbox[u]
               /\ CanBeSentTo(t) =>
                     /\ inbox'[t] = Frame("session_started", h[t].sid, <<>>)
                     /\ active_connections' = active_connections
                     /\ session_connections' = joined.sc
                     /\ c \in session_connections'[h[t].sid]
               /\ (c \in DOMAIN active_connections /\ ws[t] # "open") =>
                     /\ inbox'[t] = inbox[t]
                     /\ active_connections' = disconnect(joined, c).ac
                     /\ session_connections' = disconnect(joined, c).sc
               /\ c \notin DOMAIN active_connections =>
                     /\ inbox'[t] = inbox[t]
                     /\ active_connections' = active_connections
                     /\ session_connections' = joined.sc
         /\ StartReturns(t, FALSE) =>
               /\ sessions' = sessions
               /\ \A u \in Transports \ {t} : inbox'[u] = inbox[u]
               /\ \A s \in DOMAIN session_connections' :
                     c \in session_connections'[s] =>
                        s \in DOMAIN session_connections
                        /\ c \in session_connections[s]
               /\ CanBeSentTo(t) =>
                     /\ inbox'[t] = Frame("error", NoSid, <<>>)
                     /\ active_connections' = active_connections
                     /\ session_connections' = session_connections]_vars

\* One connection has started a session: it holds session_started with the
\* id of a session that is active and empty, and is a member of it.  Another
\* sent start_session when the store failed: it holds the error and is a
\* member of no session.
C26_Witness ==
    \E t, u \in Transports : \E s \in DOMAIN sessions :
        /\ inbox[t] = Frame("session_started", s, <<>>)
        /\ sessions[s] = [status |-> "active", segments |-> <<>>]
        /\ s \in DOMAIN session_connections
        /\ session_connections[s] = {ConnIdOf(t)}
        /\ CanBeSentTo(t)
        /\ inbox[u] = Frame("error", NoSid, <<>>)
        /\ pc[u] = "recv"
        /\ CanBeSentTo(u)
        /\ SessionsOf(ConnIdOf(u)) = {}
        /\ DOMAIN sessions = {s}

\* C27: a stored session whose status is completed is, after any step that
\* does not delete it, still completed; and a session is only ever active or
\* completed.
C27_CompletedIsTerminal ==
    /\ [](\A s \in DOMAIN sessions : sessions[s].status \in {"active", "completed"})
    /\ [][\A s \in DOMAIN sessions \cap DOMAIN sessions' :
            sessions[s].status = "completed" =>
                sessions'[s].status = "completed"]_vars

\* A session is completed; since its first stop_session returned, a
\* connection has joined it, the update of a second stop_session has been
\* made, and an upload to it has begun and stored a segment.
C27_Witness ==
    \E s \in DOMAIN sessions : \E t \in Transports :
        /\ sessions[s].status = "completed"
        /\ s \in hist.stopped
        /\ hist.late[s] # {}
        /\ upload.stage = "storing"
        /\ upload.sid = s
        /\ upload.after_stop
        /\ upload.idx = 2
        /\ sessions[s].segments = upload.segs
        /\ h[t].type = "stop_session"
        /\ h[t].sid = s
        /\ h[t].known

\* s is a sequence that begins with the sequence p.
IsPrefix(p, s) == Len(p) <= Len(s) /\ SubSeq(s, 1, Len(p)) = p

\* C28: after any step that does not delete the session, its stored segments
\* begin with the segments it had stored before, unchanged and in their order.
C28_AppendOnly ==
    [][\A s \in DOMAIN sessions \cap DOMAIN sessions' :
          IsPrefix(sessions[s].segments, sessions'[s].segments)]_vars

\* A completed session holds a segment of an audio_data chunk and after it a
\* segment of an uploaded file, and the upload has returned.
C28_Witness ==
    \E s \in DOMAIN sessions :
        /\ Len(sessions[s].segments) = 2
        /\ sessions[s].segments[1][1] # UploadChunk
        /\ sessions[s].segments[2][1] = UploadChunk
        /\ sessions[s].status = "completed"
        /\ upload = NoRequest

\* The window cut for the sample of the request a is shorter than 0.5 s.
SampleWindowShort(a) ==
    2 * speaker_window_len(a.audio_len, a.sample_rate) < SampleRate

\* C29: a request to add a speaker whose sample window is shorter than 0.5 s
\* has ended with the error without the embedding model having been run, and
\* the step that takes it writes no profile to the speaker store and leaves
\* the registry of known speakers as it was.
C29_ShortSampleRejected ==
    /\ [](adding.stage # "none" /\ SampleWindowShort(adding) =>
            /\ adding.stage = "done"
            /\ adding.outcome = "error"
            /\ ~adding.invoked)
    /\ [][(adding' # adding /\ SampleWindowShort(adding')) =>
            /\ speaker_profiles' = speaker_profiles
            /\ known_speakers' = known_speakers
            /\ creating' = creating]_vars

\* With an embedding model loaded and one speaker stored and registered, a
\* request whose sample is not empty but whose window is shorter than 0.5 s
\* has ended with the error, the model not having been run for it.
C29_Witness ==
    /\ adding.stage = "done"
    /\ adding.outcome = "error"
    /\ ~adding.invoked
    /\ adding.embedding_model
    /\ adding.audio_len > 0
    /\ SampleWindowShort(adding)
    /\ Len(speaker_profiles) = 1
    /\ Len(known_speakers) = 1
    /\ known_speakers[1].name # adding.name

\* The handler of t runs a chunk: in inference, in the loop over its segments
\* or in its broadcast.
ChunkInFlight(t) ==
    /\ h[t].type = "audio_data"
    /\ pc[t] \in {"infer", "audio", "snapshot", "bcast"}

\* The next step of the handler of a chunk.
ChunkGoesOn(t) ==
    /\ LoopFree(t)
    /\ \/ InferenceDone(t)
       \/ AddSegment(t)
       \/ BroadcastBegin(t)
       \/ \E c \in ConnIds : BroadcastSend(t, c)
       \/ BroadcastEnd(t)

\* C24: a chunk in flight goes on whatever connection has been disconnected,
\* its submitter included: its next step can always be taken; when its loop is
\* over, a session the store knew holds all its segments in order; its
\* broadcast copies the members the session has then, delivers new_segments
\* with the segments, and ends only when every one of them still registered
\* has been sent it.
C24_ChunkSurvivesDisconnect ==
    /\ [](\A t \in Transports : ChunkInFlight(t) =>
            /\ ENABLED ChunkGoesOn(t)
            /\ (pc[t] \in {"snapshot", "bcast"} /\ h[t].known) =>
                  /\ h[t].sid \in DOMAIN sessions
                  /\ ChunkStored(h[t].sid, h[t].segs[1][1]) = h[t].segs)
    /\ [][\A t \in Transports : ChunkInFlight(t) =>
            /\ (pc[t] = "snapshot" /\ pc'[t] = "bcast") =>
                  h'[t].snap = broadcast_snapshot(Manager, h[t].sid)
            /\ \A c \in ConnIds : Delivers(t, c) =>
                  inbox'[active_connections[c]] =
                      new_segments_frame(h[t].sid, h[t].segs)
            /\ (pc[t] = "bcast" /\ pc'[t] # "bcast") =>
                  \A c \in h[t].snap :
                      c \in DOMAIN active_connections => h[t].got[c] = 1]_vars

\* A chunk of two segments is in its broadcast; the send to its submitter has
\* failed there, so the submitter was disconnected while the chunk was in
\* flight; the session holds both segments, and the other member has been
\* sent new_segments with them.
C24_Witness ==
    \E t \in Transports : \E d \in ConnIds \ {ConnIdOf(t)} :
        /\ ChunkInFlight(t)
        /\ pc[t] = "bcast"
        /\ h[t].known
        /\ Len(h[t].segs) = 2
        /\ ConnIdOf(t) \in h[t].visited
        /\ h[t].got[ConnIdOf(t)] = 0
        /\ ConnIdOf(t) \notin DOMAIN active_connections
        /\ sessions[h[t].sid].segments = h[t].segs
        /\ d \in h[t].snap
        /\ h[t].got[d] = 1
        /\ inbox[active_connections[d]] = new_segments_frame(h[t].sid, h[t].segs)

\* The next step of the handler that the coroutine of u is in.
HandlerGoesOn(u) ==
    /\ LoopFree(u)
    /\ \/ StartResume(u)
       \/ JoinResume(u)
       \/ AddSegment(u)
       \/ BroadcastBegin(u)
       \/ \E c \in ConnIds : BroadcastSend(u, c)
       \/ BroadcastEnd(u)

\* The coroutine of u receives a frame and handles it.
FrameReceived(u) ==
    /\ LoopFree(u)
    /\ \/ ReceiveStart(u)
       \/ \E sid \in SessionIds : ReceiveJoin(u, sid) \/ ReceiveStop(u, sid)
       \/ \E type \in UnknownTypes : ReceiveUnknown(u, type)

\* The broadcast of u delivers its frame to a member.
BroadcastDelivered(u) ==
    /\ LoopFree(u)
    /\ \E c \in ConnIds : BroadcastSend(u, c) /\ Delivers(u, c)

C30_MembersRegistered ==
    \A s \in DOMAIN session_connections :
        session_connections[s] \subseteq DOMAIN active_connections

\* What the handler of a frame without a required field may not touch: the
\* store, the speaker registry, the transports, the coroutines, and the
\* frames held by transports other than the sender's.
InvalidLeavesAlone(t) ==
    /\ sessions' = sessions
    /\ ncreated' = ncreated
    /\ speaker_profiles' = speaker_profiles
    /\ known_speakers' = known_speakers
    /\ ws' = ws
    /\ pc' = pc
    /\ \A u \in Transports \ {t} : inbox'[u] = inbox[u]

\* C21 as stated: a join_session, audio_data, stop_session or
\* export_transcript frame without a session id, or an audio_data frame
\* without audio, puts the error on the sender's transport and on no other,
\* writes nothing to the store, and leaves the sender registered and every
\* membership set as it was.
C21_MissingFieldNoChange ==
    [][\A t \in Transports : \A r \in RequiredFields :
         ReceiveInvalid(t, r[1], r[2]) =>
            /\ InvalidLeavesAlone(t)
            /\ inbox'[t] = validation_error(r[1], r[2])
            /\ active_connections' = active_connections
            /\ session_connections' = session_connections]_vars

\* C21: a join_session, audio_data, stop_session or export_transcript frame
\* without a session id, or an audio_data frame without audio, writes nothing
\* to the store and sends nothing to a connection other than the sender.  A
\* registered sender whose transport can be sent to gets the error, and no
\* registration or membership changes.  For a registered sender whose peer has
\* closed the transport the send fails: nothing is delivered, and the sender is
\* unregistered and taken out of every membership set.  For a sender that is
\* not registered nothing is sent and nothing changes.
C21_MissingFieldError ==
    [][\A t \in Transports : \A r \in RequiredFields :
         ReceiveInvalid(t, r[1], r[2]) =>
            LET c == ConnIdOf(t)
                registered == c \in DOMAIN active_connections
            IN
            /\ InvalidLeavesAlone(t)
            /\ (registered /\ ws[t] = "open") =>
                  /\ inbox'[t] = validation_error(r[1], r[2])
                  /\ active_connections' = active_connections
                  /\ session_connections' = session_connections
            /\ (registered /\ ws[t] # "open") =>
                  /\ inbox' = inbox
                  /\ active_connections' = disconnect(Manager, c).ac
                  /\ session_connections' = disconnect(Manager, c).sc
            /\ ~registered =>
                  /\ inbox' = inbox
                  /\ active_connections' = active_connections
                  /\ session_connections' = session_connections]_vars

\* A member of a session that another connection is a member of has sent a
\* frame without a required field: it holds the error, the other member holds
\* something else, and both are still registered members.
C21_Witness ==
    \E t, u \in Transports : \E r \in RequiredFields : \E s \in SessionIds :
        /\ t # u
        /\ inbox[t] = validation_error(r[1], r[2])
        /\ inbox[u].type # "error"
        /\ pc[t] = "recv"
        /\ ws[t] = "open"
        /\ {ConnIdOf(t), ConnIdOf(u)} \subseteq DOMAIN active_connections
        /\ s \in DOMAIN session_connections
        /\ {ConnIdOf(t), ConnIdOf(u)} \subseteq session_connections[s]

\* The elements of a sequence.
Elements(seq) == {seq[k] : k \in 1..Len(seq)}

\* The chunk of u, a chunk of session sid with the segment x, has yet to copy
\* the membership set its new_segments event goes to.
StillToBroadcast(u, sid, x) ==
    /\ h[u].type = "audio_data"
    /\ h[u].sid = sid
    /\ pc[u] \in {"infer", "audio", "snapshot"}
    /\ x \in Elements(h[u].segs)

\* C31: a connection that joins a session sees every segment of the session
\* exactly once.  When session_joined is delivered to a connection that was
\* not a member, every segment the session has stored is in the reply or
\* belongs to a chunk whose broadcast has yet to begin (never in neither);
\* and a new_segments event delivered to a connection whose transport holds
\* the session_joined reply of that session carries no segment of that reply
\* (never in both).
C31_JoinSeesEachSegmentOnce ==
    [][/\ \A t \in Transports :
            LET c == ConnIdOf(t)
                sid == h[t].sid
            IN (/\ pc[t] = "join_read"
                /\ pc'[t] # "join_read"
                /\ h[t].found
                /\ c \in DOMAIN active_connections
                /\ ws[active_connections[c]] = "open"
                /\ sid \in DOMAIN sessions
                /\ c \notin broadcast_snapshot(Manager, sid))
               => \A x \in Elements(sessions[sid].segments) :
                     \/ x \in Elements(h[t].segs)
                     \/ \E u \in Transports : StillToBroadcast(u, sid, x)
       /\ \A u \in Transports : \A c \in ConnIds :
            (/\ Delivers(u, c)
             /\ h[u].type = "audio_data"
             /\ inbox[active_connections[c]].type = "session_joined"
             /\ inbox[active_connections[c]].sid = h[u].sid)
            => Elements(inbox[active_connections[c]].segs)
                  \cap Elements(h[u].segs) = {}]_vars

\* C32: when handle_stop_session deletes the membership set of its session,
\* every registered connection that the set holds has been sent
\* session_stopped by its broadcast, a connection that joined while the
\* broadcast was under way included.
C32_StoppedMembersNotified ==
    [][\A t \in Transports :
         (/\ h[t].type = "stop_session"
          /\ pc[t] = "bcast"
          /\ pc'[t] # "bcast")
         => \A c \in broadcast_snapshot(Manager, h[t].sid) :
               c \in DOMAIN active_connections => h[t].got[c] >= 1]_vars

\* C33: in the stored segment sequence of every session the segments of each
\* chunk form one contiguous block: between two segments of a chunk there is
\* no segment of another chunk.
C33_ChunksContiguous ==
    \A s \in DOMAIN sessions :
        LET segs == sessions[s].segments IN
        \A i, j, k \in 1..Len(segs) :
            (i < j /\ j < k /\ segs[i][1] = segs[k][1]) => segs[j][1] = segs[i][1]

\* C34: when a new_segments event of a chunk is delivered to a connection,
\* and the store held the session when the chunk was received, the store
\* holds the session the event names and every segment the event carries is
\* in that session's stored sequence.
C34_DeliveredSegmentsStored ==
    [][\A u \in Transports : \A c \in ConnIds :
         (Delivers(u, c) /\ h[u].type = "audio_data" /\ h[u].known) =>
            /\ h[u].sid \in DOMAIN sessions
            /\ Elements(h[u].segs) \subseteq
                  Elements(sessions[h[u].sid].segments)]_vars

\* The coroutine of u is inside a handler.
InHandler(u) == pc[u] \notin {"new", "recv", "done"}

\* C35: the frames of a connection are handled one at a time, in the order
\* they arrive.  A step that receives a frame leaves every handler that is
\* in progress where it is, with its locals, so the next frame of a
\* connection is received only when the handler of its previous one has
\* returned; a coroutine that waits in receive_text holds no handler locals;
\* and a session_started or session_joined reply is produced by the handler
\* its connection has in progress, for the frame that handler was started
\* with.
C35_OneAtATime ==
    /\ [](\A t \in Transports : ~InHandler(t) => h[t] = Idle)
    /\ [][\A t \in Transports :
            /\ (env'.msgs < env.msgs /\ InHandler(t)) =>
                  /\ pc'[t] = pc[t]
                  /\ h'[t] = h[t]
            /\ (inbox'[t] # inbox[t] /\ inbox'[t].type = "session_started") =>
                  /\ pc[t] = "start_created"
                  /\ pc'[t] = "recv"
                  /\ inbox'[t].sid = h[t].sid
            /\ (inbox'[t] # inbox[t] /\ inbox'[t].type = "session_joined") =>
                  /\ pc[t] = "join_read"
                  /\ pc'[t] = "recv"
                  /\ inbox'[t].sid = h[t].sid
                  /\ inbox'[t].segs = h[t].segs]_vars

\* A connection has been sent the reply to its start_session and is in the
\* handler of its next frame, an audio_data chunk, while frames are left to
\* be sent and another connection is in a handler of its own.
C35_Witness ==
    \E t \in Transports : \E u \in Transports \ {t} :
        /\ inbox[t].type = "session_started"
        /\ pc[t] = "audio"
        /\ h[t].idx = 2
        /\ ws[t] = "open"
        /\ env.msgs > 0
        /\ InHandler(u)

\* C36: a connection leaves the registry only when its transport has
\* disconnected: whatever frame is received, a connection whose peer has not
\* closed the transport stays registered, and its coroutine goes on
\* receiving.
C36_OnlyDisconnectUnregisters ==
    [][\A t \in Transports :
         ws[t] = "open" =>
            /\ \A c \in DOMAIN active_connections :
                  active_connections[c] = t => c \in DOMAIN active_connections'
            /\ pc'[t] # "done"]_vars

\* C37: a connection id stays registered and mapped to the transport that
\* connected with it last for as long as the peer of that transport has not
\* closed it, whatever happens to a transport that connected with the id
\* earlier; only a transport that connects with the id in this step takes
\* its place.
C37_LaterTransportStaysRegistered ==
    [][\A c \in DOMAIN active_connections :
         LET b == active_connections[c] IN
         ws[b] = "open" =>
            /\ c \in DOMAIN active_connections'
            /\ \/ active_connections'[c] = b
               \/ pc[active_connections'[c]] = "new"]_vars

\* The sample of the request a lasts at least 0.5 s.  preprocess_audio has
\* resampled it to the processing rate, which keeps its duration, so the
\* duration is the length of the preprocessed sample over the processing
\* rate, whatever rate the request states.
SampleLongEnough(a) == 2 * a.audio_len >= SampleRate

\* C38: for every request to add a speaker, whatever sample rate it states,
\* the window cut for the embedding is the whole preprocessed sample, and
\* with an embedding model loaded a sample of at least 0.5 s is not rejected
\* as too short: the embedding model is run for it.
C38_WindowCoversSample ==
    adding.stage # "none" =>
        /\ speaker_window_len(adding.audio_len, adding.sample_rate)
              = adding.audio_len
        /\ (adding.embedding_model /\ SampleLongEnough(adding)) =>
              adding.invoked

====
